---------------------------- MODULE Spec2Model ----------------------------
(***************************************************************************)
(* Model of the transaction parser of aalbaharnah/expenses-demo            *)
(* (functions/src/routes/transactions/{utils,const}.ts) and of the routes  *)
(* that serve it (routes/transactions/index.ts, middleware/validation.ts). *)
(*                                                                         *)
(* Strings are sequences of characters.  An ASCII character is the         *)
(* one-character string itself ("S", "9", "*", " ", "\n"); an Arabic       *)
(* letter is "@" followed by its Buckwalter transliteration ("@m" is MEEM, *)
(* "@n" NOON, "@_" TATWEEL, ...), so that "@m" and "m" are different       *)
(* characters, as U+0645 and U+006D are.                                   *)
(***************************************************************************)
EXTENDS Integers, Sequences, FiniteSets, TLC

VARIABLES
    BANK_PATTERNS,      \* const.ts BANK_PATTERNS: the registry, in Object.entries order
    MERCHANT_PATTERNS,  \* const.ts MERCHANT_PATTERNS
    CATEGORY_RULES,     \* const.ts CATEGORY_RULES
    adds,               \* number of add operations performed so far
    clock,              \* midnights (UTC) passed since 2025-06-08 (new Date())
    req,                \* the call in progress: its operation and arguments
    ret,                \* the last completed call: operation, arguments, result
    app,                \* the router the function instance serves requests with
    pending,            \* HTTP requests received and not yet answered
    responses,          \* HTTP responses, in the order they were sent
    firestore           \* documents written to users/{userId}/transactions

httpVars == <<app, pending, responses, firestore>>

vars == <<BANK_PATTERNS, MERCHANT_PATTERNS, CATEGORY_RULES, adds, clock, req, ret, httpVars>>

\* No HTTP layer: the functions of utils.ts are called directly.
NoHttp ==
    /\ app = "none"
    /\ pending = <<>>
    /\ responses = <<>>
    /\ firestore = <<>>

-----------------------------------------------------------------------------
(* Characters and strings *)

\* An ASCII literal as a sequence of characters.
L(s) == [i \in 1..Len(s) |-> SubSeq(s, i, i)]

\* An Arabic literal, written in Buckwalter transliteration.
Ar(s) == [i \in 1..Len(s) |-> "@" \o SubSeq(s, i, i)]

NL == "\n"
SP == " "

UpperSeq == L("ABCDEFGHIJKLMNOPQRSTUVWXYZ")
LowerSeq == L("abcdefghijklmnopqrstuvwxyz")
DigitSeq == L("0123456789")
Upper == {UpperSeq[i] : i \in 1..Len(UpperSeq)}
Lower == {LowerSeq[i] : i \in 1..Len(LowerSeq)}
Digit == {DigitSeq[i] : i \in 1..Len(DigitSeq)}
Space == {SP, NL, "\t"}

\* String.prototype.toLowerCase on one character: A-Z fold, everything else
\* (digits, punctuation, Arabic letters) is unchanged.
LowerChar(c) ==
    IF c \in Upper
    THEN LowerSeq[CHOOSE i \in 1..Len(UpperSeq) : UpperSeq[i] = c]
    ELSE c

toLowerCase(s) == [i \in 1..Len(s) |-> LowerChar(s[i])]

\* String.prototype.trim
RECURSIVE TrimLeft(_)
TrimLeft(s) == IF s # <<>> /\ Head(s) \in Space THEN TrimLeft(Tail(s)) ELSE s

RECURSIVE TrimRight(_)
TrimRight(s) ==
    IF s # <<>> /\ s[Len(s)] \in Space THEN TrimRight(SubSeq(s, 1, Len(s) - 1)) ELSE s

trim(s) == TrimRight(TrimLeft(s))

\* s.includes(k): k occurs in s as a contiguous substring.
includes(s, k) ==
    \E i \in 1..(Len(s) - Len(k) + 1) : SubSeq(s, i, i + Len(k) - 1) = k

\* An optional value of JavaScript: a string, or undefined.
Some(s) == [def |-> TRUE, v |-> s]
Undefined == [def |-> FALSE, v |-> <<>>]

\* JavaScript truthiness of an optional string: undefined and "" are falsy.
Truthy(o) == o.def /\ o.v # <<>>

-----------------------------------------------------------------------------
(* Regular expressions.  A pattern is [ci |-> ignore-case flag, re |-> the   *)
(* sequence of its items]; an item is an ordered alternation of literals, a  *)
(* greedy repetition of a character class, a group bracket or ^.  Matching   *)
(* is the backtracking search of ECMAScript: leftmost start, alternatives in *)
(* order, repetitions longest first.                                         *)

Alt(ss) == [t |-> "alt", alts |-> ss]
Lit(s) == Alt(<<s>>)
Rep(cls, mn, mx) == [t |-> "rep", cls |-> cls, mn |-> mn, mx |-> mx, unb |-> FALSE]
RepUnb(cls, mn) == [t |-> "rep", cls |-> cls, mn |-> mn, mx |-> mn, unb |-> TRUE]
Open(g) == [t |-> "open", g |-> g]
Close(g) == [t |-> "close", g |-> g]
Bol == [t |-> "bol"]

RegExp(items, ci) == [ci |-> ci, re |-> items]

\* Character classes of the patterns in const.ts and utils.ts.
InClass(c, cls) ==
    CASE cls = "space"   -> c \in Space                   \* \s
      [] cls = "digit"   -> c \in Digit                   \* \d
      [] cls = "notnl"   -> c # NL                        \* [^\n] and .
      [] cls = "amt"     -> c \in Digit \cup {",", "."}   \* [\d,\.]
      [] cls = "upper"   -> c \in Upper                   \* [A-Z]
      [] cls = "upnum"   -> c \in Upper \cup Digit        \* [A-Z0-9]
      [] cls = "star"    -> c = "*"                       \* \*
      [] cls = "sep"     -> c \in {"/", "-"}              \* [\/\-]
      [] cls = "dash"    -> c = "-"
      [] cls = "colon"   -> c = ":"
      [] cls = "notspace" -> c \notin Space              \* \S
      [] cls = "notdignl" -> c \notin Digit \cup {NL}  \* [^0-9\n]

Min(S) == CHOOSE x \in S : \A y \in S : x <= y
Max(S) == CHOOSE x \in S : \A y \in S : y <= x

\* Number of consecutive characters of class cls in text from position pos,
\* at most lim.
RunLen(text, pos, cls, lim) ==
    LET last  == Min({Len(text), pos + lim - 1})
        stops == {j \in pos..last : ~InClass(text[j], cls)}
    IN  IF stops = {} THEN Max({last - pos + 1, 0}) ELSE Min(stops) - pos

\* Whether literal s occurs in text at position pos.
LitAt(text, pos, s, ci) ==
    /\ pos + Len(s) - 1 <= Len(text)
    /\ IF ci THEN toLowerCase(SubSeq(text, pos, pos + Len(s) - 1)) = toLowerCase(s)
             ELSE SubSeq(text, pos, pos + Len(s) - 1) = s

NoCaps == [g \in 1..3 |-> [def |-> FALSE, s |-> 0, e |-> 0]]
NoMatch == [ok |-> FALSE, start |-> 0, end |-> 0, caps |-> NoCaps]

\* The first successful way, in backtracking order, of matching items
\* k..Len(re) of the pattern at position pos.
RECURSIVE MatchAt(_, _, _, _, _)
RECURSIVE TryAlts(_, _, _, _, _, _)
RECURSIVE TryReps(_, _, _, _, _, _)

MatchAt(p, k, text, pos, caps) ==
    IF k > Len(p.re)
    THEN [ok |-> TRUE, start |-> 0, end |-> pos, caps |-> caps]
    ELSE LET it == p.re[k] IN
         CASE it.t = "bol"   -> IF pos = 1 THEN MatchAt(p, k + 1, text, pos, caps)
                                ELSE NoMatch
           [] it.t = "open"  -> MatchAt(p, k + 1, text, pos,
                                        [caps EXCEPT ![it.g].s = pos])
           [] it.t = "close" -> MatchAt(p, k + 1, text, pos,
                                        [caps EXCEPT ![it.g].e = pos, ![it.g].def = TRUE])
           [] it.t = "alt"   -> TryAlts(p, k, text, pos, caps, 1)
           [] it.t = "rep"   ->
                LET lim == IF it.unb THEN Len(text) ELSE it.mx
                    n   == RunLen(text, pos, it.cls, lim)
                IN  TryReps(p, k, text, pos, caps, n)

TryAlts(p, k, text, pos, caps, a) ==
    LET it == p.re[k] IN
    IF a > Len(it.alts) THEN NoMatch
    ELSE IF LitAt(text, pos, it.alts[a], p.ci)
         THEN LET r == MatchAt(p, k + 1, text, pos + Len(it.alts[a]), caps)
              IN  IF r.ok THEN r ELSE TryAlts(p, k, text, pos, caps, a + 1)
         ELSE TryAlts(p, k, text, pos, caps, a + 1)

TryReps(p, k, text, pos, caps, n) ==
    LET it == p.re[k] IN
    IF n < it.mn THEN NoMatch
    ELSE LET r == MatchAt(p, k + 1, text, pos + n, caps)
         IN  IF r.ok THEN r ELSE TryReps(p, k, text, pos, caps, n - 1)

\* The positions at which a match of the pattern can start at all: where one
\* of the leading alternatives has its first character, position 1 for ^.
Candidates(p, text) ==
    IF p.re # <<>> /\ p.re[1].t = "bol" THEN {1}
    ELSE IF /\ p.re # <<>>
            /\ p.re[1].t = "alt"
            /\ \A a \in 1..Len(p.re[1].alts) : p.re[1].alts[a] # <<>>
         THEN LET Fold(c) == IF p.ci THEN LowerChar(c) ELSE c
                  firsts  == {Fold(p.re[1].alts[a][1]) : a \in 1..Len(p.re[1].alts)}
              IN  {i \in 1..Len(text) : Fold(text[i]) \in firsts}
         ELSE 1..(Len(text) + 1)

\* The leftmost match of the pattern in text.
exec(p, text) ==
    LET starts == {i \in Candidates(p, text) : MatchAt(p, 1, text, i, NoCaps).ok}
    IN  IF starts = {} THEN NoMatch
        ELSE [MatchAt(p, 1, text, Min(starts), NoCaps) EXCEPT !.start = Min(starts)]

\* text.match(p) for a pattern without the g flag; p undefined is
\* new RegExp(undefined), the empty pattern, which matches at the start of
\* every text and has no groups.
EmptyRegExp == RegExp(<<>>, FALSE)
match(text, p) == exec(IF p.def THEN p.v ELSE EmptyRegExp, text)

\* p.test(text)
test(p, text) == exec(p, text).ok

\* m[g] of a successful match m: the text of group g, undefined for a group
\* the pattern does not have.
Group(text, m, g) ==
    IF m.caps[g].def THEN Some(SubSeq(text, m.caps[g].s, m.caps[g].e - 1))
    ELSE Undefined

-----------------------------------------------------------------------------
(* const.ts: the shapes of the field patterns of BANK_PATTERNS.  kws are the *)
(* alternatives of the leading keyword group, in source order.               *)

\* /^([^\n]+)/
DescriptionRe ==
    RegExp(<<Bol, Open(1), RepUnb("notnl", 1), Close(1)>>, FALSE)

\* /(?:kws)\s*([\d,\.]+)\s*([A-Z]{3})/
AmountRe(kws) ==
    RegExp(<<Alt(kws), RepUnb("space", 0), Open(1), RepUnb("amt", 1), Close(1),
             RepUnb("space", 0), Open(2), Rep("upper", 3, 3), Close(2)>>, FALSE)

\* /(?:kws)\s+([^\n]+)/
LineRe(kws) ==
    RegExp(<<Alt(kws), RepUnb("space", 1), Open(1), RepUnb("notnl", 1), Close(1)>>, FALSE)

\* /kw\s*(\d+\*)/
MaskedOneStarRe(kws) ==
    RegExp(<<Alt(kws), RepUnb("space", 0), Open(1), RepUnb("digit", 1),
             Rep("star", 1, 1), Close(1)>>, FALSE)

\* /(?:kws)\s*(\d+\*+)/
MaskedRe(kws) ==
    RegExp(<<Alt(kws), RepUnb("space", 0), Open(1), RepUnb("digit", 1),
             RepUnb("star", 1), Close(1)>>, FALSE)

\* /(?:kws).*(\d+\*+)/
WalletCardRe(kws) ==
    RegExp(<<Alt(kws), RepUnb("notnl", 0), Open(1), RepUnb("digit", 1),
             RepUnb("star", 1), Close(1)>>, FALSE)

\* /kw\s*(\d{2}-\d{2}-\d{1,2})/
ShortDateRe(kws) ==
    RegExp(<<Alt(kws), RepUnb("space", 0), Open(1), Rep("digit", 2, 2), Rep("dash", 1, 1),
             Rep("digit", 2, 2), Rep("dash", 1, 1), Rep("digit", 1, 2), Close(1)>>, FALSE)

\* /(?:kws)\s*(\d{1,2}[\/\-]\d{1,2}[\/\-]\d{2,4})/
DateRe(kws) ==
    RegExp(<<Alt(kws), RepUnb("space", 0), Open(1), Rep("digit", 1, 2), Rep("sep", 1, 1),
             Rep("digit", 1, 2), Rep("sep", 1, 1), Rep("digit", 2, 4), Close(1)>>, FALSE)

\* /(?:kws)\s*([A-Z0-9]+)/
CodeRe(kws) ==
    RegExp(<<Alt(kws), RepUnb("space", 0), Open(1), RepUnb("upnum", 1), Close(1)>>, FALSE)

\* /(?:kws)\s*(\d+)/
NumberRe(kws) ==
    RegExp(<<Alt(kws), RepUnb("space", 0), Open(1), RepUnb("digit", 1), Close(1)>>, FALSE)

\* /(?:kws)\s*(\d{1,2}:\d{2})/
TimeRe(kws) ==
    RegExp(<<Alt(kws), RepUnb("space", 0), Open(1), Rep("digit", 1, 2), Rep("colon", 1, 1),
             Rep("digit", 2, 2), Close(1)>>, FALSE)

\* /(?:kws)\s+([^0-9\n]+)/
LocationRe(kws) ==
    RegExp(<<Alt(kws), RepUnb("space", 1), Open(1), RepUnb("notdignl", 1), Close(1)>>, FALSE)

\* /(?:kws)\s*([\d,\.]+)/
BalanceRe(kws) ==
    RegExp(<<Alt(kws), RepUnb("space", 0), Open(1), RepUnb("amt", 1), Close(1)>>, FALSE)

\* /(?:kws)/
KeywordRe(kws) == RegExp(<<Alt(kws)>>, FALSE)

\* /(?:kws)\s*(\d+)\s*من\s*(\d+)/
InstallmentOfRe(kws) ==
    RegExp(<<Alt(kws), RepUnb("space", 0), Open(1), RepUnb("digit", 1), Close(1),
             RepUnb("space", 0), Lit(Ar("mn")), RepUnb("space", 0),
             Open(2), RepUnb("digit", 1), Close(2)>>, FALSE)

-----------------------------------------------------------------------------
(* const.ts: BANK_PATTERNS.  A pattern set is the sequence of its            *)
(* (key, pattern) properties in source order.                                *)

\* const.ts:10-17
generic ==
    << [key |-> "description", pattern |-> DescriptionRe],
       [key |-> "amount", pattern |-> AmountRe(<<Ar("b_")>>)],
       [key |-> "merchant", pattern |-> LineRe(<<Ar("mn")>>)],
       [key |-> "card", pattern |-> MaskedOneStarRe(<<Ar("mdY")>>)],
       [key |-> "account", pattern |-> MaskedOneStarRe(<<Ar("HsAb")>>)],
       [key |-> "date", pattern |-> ShortDateRe(<<Ar("fy")>>)] >>

\* const.ts:20-29
alrajhi ==
    << [key |-> "description", pattern |-> DescriptionRe],
       [key |-> "amount", pattern |-> AmountRe(<<Ar("qymp"), Ar("mblg"), Ar("bqymp")>>)],
       [key |-> "merchant", pattern |-> LineRe(<<Ar("mn"), Ar("ldY"), Ar("End")>>)],
       [key |-> "card", pattern |-> MaskedRe(<<Ar("bTAqp"), Ar("kArt")>>)],
       [key |-> "account", pattern |-> MaskedRe(<<Ar("HsAb"), Ar("rqm") \o L(" ") \o Ar("AlHsAb")>>)],
       [key |-> "date", pattern |-> DateRe(<<Ar("btAryx"), Ar("fy"), Ar("tAryx")>>)],
       [key |-> "reference", pattern |-> CodeRe(<<Ar("mrjE"), Ar("rqm") \o L(" ") \o Ar("mrjE")>>)],
       [key |-> "terminal", pattern |-> CodeRe(<<Ar("Trfyp"), Ar("jhAz")>>)] >>

\* const.ts:32-41
ncb ==
    << [key |-> "description", pattern |-> DescriptionRe],
       [key |-> "amount", pattern |-> AmountRe(<<Ar("Almblg"), Ar("Alqymp"), Ar("bmblg")>>)],
       [key |-> "merchant", pattern |-> LineRe(<<Ar("AltAjr"), Ar("mn"), Ar("ldY")>>)],
       [key |-> "card", pattern |-> MaskedRe(<<Ar("AlbTAqp"), Ar("kArt")>>)],
       [key |-> "account", pattern |-> MaskedRe(<<Ar("AlHsAb"), Ar("HsAb") \o L(" ") \o Ar("rqm")>>)],
       [key |-> "date", pattern |-> DateRe(<<Ar("AltAryx"), Ar("fy")>>)],
       [key |-> "branch", pattern |-> NumberRe(<<Ar("AlfrE"), Ar("frE")>>)],
       [key |-> "reference", pattern |-> CodeRe(<<Ar("Alrqm") \o L(" ") \o Ar("AlmrjEy"), Ar("mrjE")>>)] >>

\* const.ts:44-53
riyad ==
    << [key |-> "description", pattern |-> DescriptionRe],
       [key |-> "amount", pattern |-> AmountRe(<<Ar("bmblg"), Ar("Almblg"), Ar("qdrh")>>)],
       [key |-> "merchant", pattern |-> LineRe(<<Ar("mn"), Ar("lSAlH"), Ar("<lY")>>)],
       [key |-> "card", pattern |-> MaskedRe(<<Ar("bTAqp") \o L(" ") \o Ar("rqm"), Ar("AlbTAqp")>>)],
       [key |-> "account", pattern |-> MaskedRe(<<Ar("mn") \o L(" ") \o Ar("AlHsAb"), Ar("AlHsAb")>>)],
       [key |-> "date", pattern |-> DateRe(<<Ar("btAryx"), Ar("fy") \o L(" ") \o Ar("ywm")>>)],
       [key |-> "time", pattern |-> TimeRe(<<Ar("AlsAEp"), Ar("wqt")>>)],
       [key |-> "location", pattern |-> LocationRe(<<Ar("fy"), Ar("b_")>>)] >>

\* const.ts:56-64
samba ==
    << [key |-> "description", pattern |-> DescriptionRe],
       [key |-> "amount", pattern |-> AmountRe(<<Ar("bqymp"), Ar("mqdAr"), Ar("bmblg")>>)],
       [key |-> "merchant", pattern |-> LineRe(<<Ar("mn"), Ar("End"), Ar("ldY")>>)],
       [key |-> "card", pattern |-> MaskedRe(<<Ar("bAlbTAqp"), Ar("AlbTAqp")>>)],
       [key |-> "account", pattern |-> MaskedRe(<<Ar("AlHsAb"), Ar("mn") \o L(" ") \o Ar("HsAb")>>)],
       [key |-> "date", pattern |-> DateRe(<<Ar("fy"), Ar("btAryx")>>)],
       [key |-> "approval", pattern |-> CodeRe(<<Ar("rqm") \o L(" ") \o Ar("AlmwAfqp"), Ar("AlmwAfqp")>>)] >>

\* const.ts:67-76
snb ==
    << [key |-> "description", pattern |-> DescriptionRe],
       [key |-> "amount", pattern |-> AmountRe(<<Ar("bmblg"), Ar("Alqymp"), Ar("Almblg")>>)],
       [key |-> "merchant", pattern |-> LineRe(<<Ar("mn"), Ar("AltAjr"), Ar("End")>>)],
       [key |-> "card", pattern |-> MaskedRe(<<Ar("AlbTAqp"), Ar("bTAqp") \o L(" ") \o Ar("rqm")>>)],
       [key |-> "account", pattern |-> MaskedRe(<<Ar("AlHsAb"), Ar("HsAb")>>)],
       [key |-> "date", pattern |-> DateRe(<<Ar("fy"), Ar("AltAryx"), Ar("btAryx")>>)],
       [key |-> "channel", pattern |-> LineRe(<<Ar("AlqnAp"), Ar("Ebr")>>)],
       [key |-> "reference", pattern |-> CodeRe(<<Ar("AlmrjE"), Ar("rqm") \o L(" ") \o Ar("mrjEy")>>)] >>

\* const.ts:79-87
saib ==
    << [key |-> "description", pattern |-> DescriptionRe],
       [key |-> "amount", pattern |-> AmountRe(<<Ar("bmblg"), Ar("qymp"), Ar("mqdAr")>>)],
       [key |-> "merchant", pattern |-> LineRe(<<Ar("mn"), Ar("ldY"), Ar("End")>>)],
       [key |-> "card", pattern |-> MaskedRe(<<Ar("bTAqp"), Ar("krt")>>)],
       [key |-> "account", pattern |-> MaskedRe(<<Ar("HsAb"), Ar("AlHsAb") \o L(" ") \o Ar("rqm")>>)],
       [key |-> "date", pattern |-> DateRe(<<Ar("btAryx"), Ar("fy")>>)],
       [key |-> "type", pattern |-> LineRe(<<Ar("nwE") \o L(" ") \o Ar("AlEmlyp"), Ar("AlEmlyp")>>)] >>

\* const.ts:90-98
bsf ==
    << [key |-> "description", pattern |-> DescriptionRe],
       [key |-> "amount", pattern |-> AmountRe(<<Ar("mblg"), Ar("bqymp"), Ar("Alqymp")>>)],
       [key |-> "merchant", pattern |-> LineRe(<<Ar("mn"), Ar("End"), Ar("AltAjr")>>)],
       [key |-> "card", pattern |-> MaskedRe(<<Ar("AlbTAqp"), Ar("bTAqp")>>)],
       [key |-> "account", pattern |-> MaskedRe(<<Ar("AlHsAb"), Ar("HsAb") \o L(" ") \o Ar("rqm")>>)],
       [key |-> "date", pattern |-> DateRe(<<Ar("fy"), Ar("AltAryx")>>)],
       [key |-> "location", pattern |-> LocationRe(<<Ar("AlmkAn"), Ar("fy")>>)] >>

\* const.ts:101-109
anb ==
    << [key |-> "description", pattern |-> DescriptionRe],
       [key |-> "amount", pattern |-> AmountRe(<<Ar("bmblg"), Ar("Almblg"), Ar("qdrh")>>)],
       [key |-> "merchant", pattern |-> LineRe(<<Ar("mn"), Ar("lSAlH"), Ar("End")>>)],
       [key |-> "card", pattern |-> MaskedRe(<<Ar("bTAqp") \o L(" ") \o Ar("rqm"), Ar("AlbTAqp")>>)],
       [key |-> "account", pattern |-> MaskedRe(<<Ar("mn") \o L(" ") \o Ar("HsAb"), Ar("AlHsAb")>>)],
       [key |-> "date", pattern |-> DateRe(<<Ar("btAryx"), Ar("fy")>>)],
       [key |-> "balance", pattern |-> BalanceRe(<<Ar("AlrSyd"), Ar("AlrSyd") \o L(" ") \o Ar("AlmtAH")>>)] >>

\* const.ts:112-120
sabb ==
    << [key |-> "description", pattern |-> DescriptionRe],
       [key |-> "amount", pattern |-> AmountRe(<<L("Amount"), Ar("mblg"), Ar("Alqymp")>>)],
       [key |-> "merchant", pattern |-> LineRe(<<Ar("mn"), L("From"), L("Merchant")>>)],
       [key |-> "card", pattern |-> MaskedRe(<<L("Card"), Ar("AlbTAqp"), Ar("bTAqp")>>)],
       [key |-> "account", pattern |-> MaskedRe(<<L("Account"), Ar("AlHsAb"), Ar("HsAb")>>)],
       [key |-> "date", pattern |-> DateRe(<<L("Date"), Ar("fy"), Ar("AltAryx")>>)],
       [key |-> "reference", pattern |-> CodeRe(<<L("Ref"), Ar("mrjE"), L("Reference")>>)] >>

\* const.ts:123-131
aljazira ==
    << [key |-> "description", pattern |-> DescriptionRe],
       [key |-> "amount", pattern |-> AmountRe(<<Ar("bmblg"), Ar("qymp"), Ar("Almblg")>>)],
       [key |-> "merchant", pattern |-> LineRe(<<Ar("mn"), Ar("End"), Ar("ldY")>>)],
       [key |-> "card", pattern |-> MaskedRe(<<Ar("bTAqp"), Ar("AlbTAqp")>>)],
       [key |-> "account", pattern |-> MaskedRe(<<Ar("HsAb"), Ar("AlHsAb")>>)],
       [key |-> "date", pattern |-> DateRe(<<Ar("fy"), Ar("btAryx")>>)],
       [key |-> "terminal", pattern |-> CodeRe(<<Ar("AljhAz"), Ar("Trfyp")>>)] >>

\* const.ts:134-142
albilad ==
    << [key |-> "description", pattern |-> DescriptionRe],
       [key |-> "amount", pattern |-> AmountRe(<<Ar("bmblg"), Ar("Alqymp"), Ar("mqdAr")>>)],
       [key |-> "merchant", pattern |-> LineRe(<<Ar("mn"), Ar("AltAjr"), Ar("End")>>)],
       [key |-> "card", pattern |-> MaskedRe(<<Ar("bTAqp"), Ar("AlbTAqp") \o L(" ") \o Ar("rqm")>>)],
       [key |-> "account", pattern |-> MaskedRe(<<Ar("AlHsAb"), Ar("HsAb")>>)],
       [key |-> "date", pattern |-> DateRe(<<Ar("btAryx"), Ar("fy"), Ar("AltAryx")>>)],
       [key |-> "branch", pattern |-> NumberRe(<<Ar("AlfrE"), Ar("frE") \o L(" ") \o Ar("rqm")>>)] >>

\* const.ts:145-153
fab ==
    << [key |-> "description", pattern |-> DescriptionRe],
       [key |-> "amount", pattern |-> AmountRe(<<L("Amount"), Ar("mblg"), Ar("bqymp")>>)],
       [key |-> "merchant", pattern |-> LineRe(<<Ar("mn"), L("From"), L("at")>>)],
       [key |-> "card", pattern |-> MaskedRe(<<L("Card"), Ar("bTAqp")>>)],
       [key |-> "account", pattern |-> MaskedRe(<<L("Account"), Ar("HsAb")>>)],
       [key |-> "date", pattern |-> DateRe(<<L("Date"), Ar("fy"), L("on")>>)],
       [key |-> "reference", pattern |-> CodeRe(<<L("Ref"), Ar("mrjE")>>)] >>

\* const.ts:156-165
stcpay ==
    << [key |-> "description", pattern |-> DescriptionRe],
       [key |-> "amount", pattern |-> AmountRe(<<Ar("mblg"), Ar("bqymp"), Ar("Alqymp")>>)],
       [key |-> "merchant", pattern |-> LineRe(<<Ar("<lY"), Ar("mn"), Ar("lltAjr")>>)],
       [key |-> "account", pattern |-> MaskedRe(<<Ar("mHfZp"), Ar("Alrqm")>>)],
       [key |-> "date", pattern |-> DateRe(<<Ar("fy"), Ar("btAryx")>>)],
       [key |-> "time", pattern |-> TimeRe(<<Ar("AlsAEp"), Ar("wqt")>>)],
       [key |-> "type", pattern |-> LineRe(<<Ar("nwE") \o L(" ") \o Ar("AlEmlyp"), Ar("AlEmlyp")>>)],
       [key |-> "reference", pattern |-> CodeRe(<<Ar("rqm") \o L(" ") \o Ar("AlEmlyp"), Ar("mrjE")>>)] >>

\* const.ts:168-175
mobilypay ==
    << [key |-> "description", pattern |-> DescriptionRe],
       [key |-> "amount", pattern |-> AmountRe(<<Ar("mblg"), Ar("bqymp"), Ar("Alqymp")>>)],
       [key |-> "merchant", pattern |-> LineRe(<<Ar("<lY"), Ar("mn"), Ar("lltAjr")>>)],
       [key |-> "account", pattern |-> MaskedRe(<<Ar("mHfZp"), Ar("rqm") \o L(" ") \o Ar("AlmHfZp")>>)],
       [key |-> "date", pattern |-> DateRe(<<Ar("fy"), Ar("AltAryx")>>)],
       [key |-> "reference", pattern |-> CodeRe(<<Ar("rqm") \o L(" ") \o Ar("AlmrjE"), Ar("mrjE")>>)] >>

\* const.ts:178-185
zainpay ==
    << [key |-> "description", pattern |-> DescriptionRe],
       [key |-> "amount", pattern |-> AmountRe(<<Ar("mblg"), Ar("Alqymp"), Ar("bqymp")>>)],
       [key |-> "merchant", pattern |-> LineRe(<<Ar("<lY"), Ar("mn"), Ar("AltAjr")>>)],
       [key |-> "account", pattern |-> MaskedRe(<<Ar("mHfZp"), Ar("Alrqm")>>)],
       [key |-> "date", pattern |-> DateRe(<<Ar("fy"), Ar("btAryx")>>)],
       [key |-> "reference", pattern |-> CodeRe(<<Ar("rqm") \o L(" ") \o Ar("AlEmlyp"), Ar("mrjE")>>)] >>

\* const.ts:188-196
alinma ==
    << [key |-> "description", pattern |-> DescriptionRe],
       [key |-> "amount", pattern |-> AmountRe(<<Ar("bmblg"), Ar("Almblg"), Ar("qymp")>>)],
       [key |-> "merchant", pattern |-> LineRe(<<Ar("mn"), Ar("End"), Ar("ldY")>>)],
       [key |-> "card", pattern |-> MaskedRe(<<Ar("bTAqp"), Ar("AlbTAqp")>>)],
       [key |-> "account", pattern |-> MaskedRe(<<Ar("AlHsAb"), Ar("HsAb") \o L(" ") \o Ar("rqm")>>)],
       [key |-> "date", pattern |-> DateRe(<<Ar("btAryx"), Ar("fy"), Ar("AltAryx")>>)],
       [key |-> "islamic", pattern |-> KeywordRe(<<Ar("wfqAF") \o L(" ") \o Ar("ll$ryEp"), Ar("$ryEp"), Ar("<slAmy")>>)] >>

\* const.ts:199-207
rajhiislamic ==
    << [key |-> "description", pattern |-> DescriptionRe],
       [key |-> "amount", pattern |-> AmountRe(<<Ar("bmblg"), Ar("Alqymp"), Ar("mqdAr")>>)],
       [key |-> "merchant", pattern |-> LineRe(<<Ar("mn"), Ar("ldY"), Ar("End")>>)],
       [key |-> "card", pattern |-> MaskedRe(<<Ar("bTAqp"), Ar("AlbTAqp")>>)],
       [key |-> "account", pattern |-> MaskedRe(<<Ar("AlHsAb"), Ar("HsAb")>>)],
       [key |-> "date", pattern |-> DateRe(<<Ar("fy"), Ar("btAryx")>>)],
       [key |-> "islamic", pattern |-> KeywordRe(<<Ar("HlAl"), Ar("$rEy"), Ar("<slAmy")>>)] >>

\* const.ts:210-217
applepay ==
    << [key |-> "description", pattern |-> DescriptionRe],
       [key |-> "amount", pattern |-> AmountRe(<<Ar("b_"), Ar("bmblg"), L("Amount")>>)],
       [key |-> "merchant", pattern |-> LineRe(<<Ar("mn"), L("From"), L("at")>>)],
       [key |-> "card", pattern |-> WalletCardRe(<<L("Apple Pay"), Ar("|bl") \o L(" ") \o Ar("bAy")>>)],
       [key |-> "date", pattern |-> DateRe(<<Ar("fy"), L("on"), L("Date")>>)],
       [key |-> "device", pattern |-> KeywordRe(<<L("iPhone"), L("iPad"), L("Apple Watch"), Ar("|yfwn"), Ar("|ybAd")>>)] >>

\* const.ts:220-227
samsungpay ==
    << [key |-> "description", pattern |-> DescriptionRe],
       [key |-> "amount", pattern |-> AmountRe(<<Ar("b_"), Ar("bmblg"), L("Amount")>>)],
       [key |-> "merchant", pattern |-> LineRe(<<Ar("mn"), L("From"), L("at")>>)],
       [key |-> "card", pattern |-> WalletCardRe(<<L("Samsung Pay"), Ar("sAmswnj") \o L(" ") \o Ar("bAy")>>)],
       [key |-> "date", pattern |-> DateRe(<<Ar("fy"), L("on"), L("Date")>>)],
       [key |-> "device", pattern |-> KeywordRe(<<L("Galaxy"), Ar("sAmswnj")>>)] >>

\* const.ts:230-238
mada ==
    << [key |-> "description", pattern |-> DescriptionRe],
       [key |-> "amount", pattern |-> AmountRe(<<Ar("b_"), Ar("bmblg"), Ar("mblg")>>)],
       [key |-> "merchant", pattern |-> LineRe(<<Ar("mn"), Ar("End"), Ar("ldY")>>)],
       [key |-> "card", pattern |-> MaskedRe(<<Ar("mdY"), L("MADA")>>)],
       [key |-> "account", pattern |-> MaskedRe(<<Ar("HsAb"), Ar("AlHsAb")>>)],
       [key |-> "date", pattern |-> DateRe(<<Ar("fy"), Ar("btAryx")>>)],
       [key |-> "terminal", pattern |-> CodeRe(<<Ar("Trfyp"), Ar("jhAz")>>)] >>

\* const.ts:241-248
visa ==
    << [key |-> "description", pattern |-> DescriptionRe],
       [key |-> "amount", pattern |-> AmountRe(<<L("Amount"), Ar("mblg"), Ar("b_")>>)],
       [key |-> "merchant", pattern |-> LineRe(<<Ar("mn"), L("From"), L("at")>>)],
       [key |-> "card", pattern |-> WalletCardRe(<<L("VISA"), Ar("fyzA")>>)],
       [key |-> "date", pattern |-> DateRe(<<Ar("fy"), L("on"), L("Date")>>)],
       [key |-> "reference", pattern |-> CodeRe(<<L("Ref"), Ar("mrjE")>>)] >>

\* const.ts:251-258
mastercard ==
    << [key |-> "description", pattern |-> DescriptionRe],
       [key |-> "amount", pattern |-> AmountRe(<<L("Amount"), Ar("mblg"), Ar("b_")>>)],
       [key |-> "merchant", pattern |-> LineRe(<<Ar("mn"), L("From"), L("at")>>)],
       [key |-> "card", pattern |-> WalletCardRe(<<L("MasterCard"), L("Mastercard"), Ar("mAstrkArd")>>)],
       [key |-> "date", pattern |-> DateRe(<<Ar("fy"), L("on"), L("Date")>>)],
       [key |-> "reference", pattern |-> CodeRe(<<L("Ref"), Ar("mrjE")>>)] >>

\* Variant: the tamara set written without its merchant line.
tamara_noMerchant ==
    << [key |-> "description", pattern |-> DescriptionRe],
       [key |-> "amount", pattern |-> AmountRe(<<Ar("bmblg"), Ar("Alqymp"), Ar("mblg")>>)],
       [key |-> "installment", pattern |-> InstallmentOfRe(<<Ar("qsT"), Ar("dfEp")>>)],
       [key |-> "date", pattern |-> DateRe(<<Ar("fy"), Ar("btAryx")>>)],
       [key |-> "reference", pattern |-> CodeRe(<<Ar("rqm") \o L(" ") \o Ar("AlTlb"), Ar("rqm") \o L(" ") \o Ar("AlmrjE")>>)] >>

\* const.ts:261-268
tamara ==
    << [key |-> "description", pattern |-> DescriptionRe],
       [key |-> "amount", pattern |-> AmountRe(<<Ar("bmblg"), Ar("Alqymp"), Ar("mblg")>>)],
       [key |-> "merchant", pattern |-> LineRe(<<Ar("mn"), Ar("End"), Ar("ldY")>>)],
       [key |-> "installment", pattern |-> InstallmentOfRe(<<Ar("qsT"), Ar("dfEp")>>)],
       [key |-> "date", pattern |-> DateRe(<<Ar("fy"), Ar("btAryx")>>)],
       [key |-> "reference", pattern |-> CodeRe(<<Ar("rqm") \o L(" ") \o Ar("AlTlb"), Ar("rqm") \o L(" ") \o Ar("AlmrjE")>>)] >>

\* const.ts:271-278
tabby ==
    << [key |-> "description", pattern |-> DescriptionRe],
       [key |-> "amount", pattern |-> AmountRe(<<Ar("bmblg"), Ar("Alqymp"), Ar("mblg")>>)],
       [key |-> "merchant", pattern |-> LineRe(<<Ar("mn"), Ar("End"), Ar("AltAjr")>>)],
       [key |-> "installment", pattern |-> NumberRe(<<Ar("qsT"), Ar("dfEp")>>)],
       [key |-> "date", pattern |-> DateRe(<<Ar("fy"), Ar("btAryx")>>)],
       [key |-> "reference", pattern |-> CodeRe(<<Ar("rqm") \o L(" ") \o Ar("AlTlb"), L("Order")>>)] >>

\* const.ts:8-279: the registry as Object.entries enumerates it.
BANK_PATTERNS_0 ==
    << [name |-> "generic", patterns |-> generic],
       [name |-> "alrajhi", patterns |-> alrajhi],
       [name |-> "ncb", patterns |-> ncb],
       [name |-> "riyad", patterns |-> riyad],
       [name |-> "samba", patterns |-> samba],
       [name |-> "snb", patterns |-> snb],
       [name |-> "saib", patterns |-> saib],
       [name |-> "bsf", patterns |-> bsf],
       [name |-> "anb", patterns |-> anb],
       [name |-> "sabb", patterns |-> sabb],
       [name |-> "aljazira", patterns |-> aljazira],
       [name |-> "albilad", patterns |-> albilad],
       [name |-> "fab", patterns |-> fab],
       [name |-> "stcpay", patterns |-> stcpay],
       [name |-> "mobilypay", patterns |-> mobilypay],
       [name |-> "zainpay", patterns |-> zainpay],
       [name |-> "alinma", patterns |-> alinma],
       [name |-> "rajhiislamic", patterns |-> rajhiislamic],
       [name |-> "applepay", patterns |-> applepay],
       [name |-> "samsungpay", patterns |-> samsungpay],
       [name |-> "mada", patterns |-> mada],
       [name |-> "visa", patterns |-> visa],
       [name |-> "mastercard", patterns |-> mastercard],
       [name |-> "tamara", patterns |-> tamara],
       [name |-> "tabby", patterns |-> tabby] >>

-----------------------------------------------------------------------------
(* const.ts: MERCHANT_PATTERNS and CATEGORY_RULES as shipped.                *)

MERCHANT_PATTERNS_0 ==
    << [pattern |-> RegExp(<<Lit(L("spotify")), RepUnb("space", 0), Lit(L("ab"))>>, TRUE),
        normalizedName |-> L("Spotify"), category |-> Some(L("Subscriptions"))],
       [pattern |-> RegExp(<<Lit(L("netflix"))>>, TRUE),
        normalizedName |-> L("Netflix"), category |-> Some(L("Subscriptions"))],
       [pattern |-> RegExp(<<Lit(L("amazon")), RepUnb("notnl", 0), Lit(L("prime"))>>, TRUE),
        normalizedName |-> L("Amazon Prime"), category |-> Some(L("Subscriptions"))],
       [pattern |-> RegExp(<<Lit(L("starbucks"))>>, TRUE),
        normalizedName |-> L("Starbucks"), category |-> Some(L("Food & Dining"))],
       [pattern |-> RegExp(<<Alt(<<L("carrefour"), Ar("kArfwr")>>)>>, TRUE),
        normalizedName |-> L("Carrefour"), category |-> Some(L("Groceries"))],
       [pattern |-> RegExp(<<Lit(L("uber"))>>, TRUE),
        normalizedName |-> L("Uber"), category |-> Some(L("Transportation"))],
       [pattern |-> RegExp(<<Alt(<<L("careem"), Ar("krym")>>)>>, TRUE),
        normalizedName |-> L("Careem"), category |-> Some(L("Transportation"))] >>

CATEGORY_RULES_0 ==
    << [keywords |-> << L("spotify"), L("netflix"), L("amazon prime"), L("youtube"), L("apple music"),
                       L("shahid"), L("stc tv"), Ar("mwsyqY"), Ar("A$trAk") >>,
        category |-> L("Subscriptions"), priority |-> 90],
       [keywords |-> << Ar("mTEm"), Ar("kAfyh"), Ar("mqhY"), Ar("bytzA"), Ar("brjr"),
                       Ar("kntAky"), Ar("mAkdwnAldz"), L("pizza"), L("burger"), L("restaurant"),
                       L("cafe"), L("kfc"), L("mcdonalds"), L("starbucks"), L("dunkin") >>,
        category |-> L("Food & Dining"), priority |-> 85],
       [keywords |-> << Ar("kArfwr"), Ar("hAybr"), Ar("swbr") \o L(" ") \o Ar("mArkt"), Ar("bqAlp"), Ar("tmwynAt"),
                       L("carrefour"), L("lulu"), L("panda"), L("danube"), L("extra") >>,
        category |-> L("Groceries"), priority |-> 85],
       [keywords |-> << Ar("bnzyn"), Ar("wqwd"), Ar("tAksy"), Ar(">wbr"), Ar("krym"),
                       Ar("mwAqf"), Ar("rswm") \o L(" ") \o Ar("Tryq"), L("uber"), L("careem"), L("taxi"),
                       L("fuel"), L("gas"), L("petrol"), L("aramco") >>,
        category |-> L("Transportation"), priority |-> 80],
       [keywords |-> << Ar("tswq"), Ar("mtjr"), Ar("mwl"), Ar("mlAbs"), Ar(">zyA'"),
                       L("shopping"), L("mall"), L("store"), L("fashion"), L("zara"),
                       L("h&m"), L("adidas"), L("nike") >>,
        category |-> L("Shopping"), priority |-> 75],
       [keywords |-> << Ar("Sydlyp"), Ar("mst$fY"), Ar("EyAdp"), Ar("Tbyb"), Ar("dwA'"),
                       L("pharmacy"), L("hospital"), L("clinic"), L("medical"), L("nahdi"),
                       L("aldawaa") >>,
        category |-> L("Healthcare"), priority |-> 80],
       [keywords |-> << Ar("khrbA'"), Ar("myAh"), Ar("<ntrnt"), Ar("jwAl"), Ar("AtSAlAt"),
                       Ar("mwbAyly"), Ar("zyn"), L("electricity"), L("water"), L("internet"),
                       L("mobile"), L("stc"), L("mobily"), L("zain") >>,
        category |-> L("Utilities"), priority |-> 85],
       [keywords |-> << Ar("synmA"), Ar(">lEAb"), Ar("mlAhy"), Ar("trfyh"), L("cinema"),
                       L("games"), L("entertainment"), L("vox"), L("muvi") >>,
        category |-> L("Entertainment"), priority |-> 70],
       [keywords |-> << Ar("SrAf"), Ar("sHb") \o L(" ") \o Ar("nqdy"), L("atm"), L("cash withdrawal"), Ar("rswm") \o L(" ") \o Ar("mSrfyp"),
                       L("bank fee") >>,
        category |-> L("Banking & ATM"), priority |-> 95] >>

-----------------------------------------------------------------------------
(* utils.ts: numbers.  A finite decimal is m / 10^e with no trailing zero in *)
(* its fraction; NaN is the other value parseFloat returns.                  *)

NaN == [nan |-> TRUE, m |-> 0, e |-> 0]

RECURSIVE Decimal(_, _)
Decimal(m, e) ==
    IF e > 0 /\ m % 10 = 0 THEN Decimal(m \div 10, e - 1)
    ELSE [nan |-> FALSE, m |-> m, e |-> e]

DigitVal(c) == CHOOSE d \in 0..9 : DigitSeq[d + 1] = c

RECURSIVE DigitsVal(_)
DigitsVal(ds) ==
    IF ds = <<>> THEN 0
    ELSE 10 * DigitsVal(SubSeq(ds, 1, Len(ds) - 1)) + DigitVal(ds[Len(ds)])

\* parseFloat(s) for s made of digits and dots: the longest prefix of the
\* form digits [. digits] or . digits; NaN when that prefix has no digit.
parseFloat(s) ==
    LET ip     == RunLen(s, 1, "digit", Len(s))
        hasDot == ip < Len(s) /\ s[ip + 1] = "."
        fp     == IF hasDot THEN RunLen(s, ip + 2, "digit", Len(s)) ELSE 0
    IN  IF ip = 0 /\ fp = 0 THEN NaN
        ELSE Decimal(DigitsVal(SubSeq(s, 1, ip) \o SubSeq(s, ip + 2, ip + 1 + fp)), fp)

\* s.replace(/,/g, "")
StripCommas(s) == SelectSeq(s, LAMBDA c : c # ",")

-----------------------------------------------------------------------------
(* utils.ts: tryParseWithPattern *)

\* patterns.key: the pattern stored under key, undefined when the set has no
\* such property.
Field(patterns, key) ==
    IF \E i \in 1..Len(patterns) : patterns[i].key = key
    THEN Some(patterns[CHOOSE i \in 1..Len(patterns) : patterns[i].key = key].pattern)
    ELSE Undefined

\* m[1].trim(): a TypeError when m[1] is undefined.
TrimOpt(o) == IF o.def THEN Some(trim(o.v)) ELSE Undefined

\* parsedData = {} before the loop: no field, and confidence || 0 is 0.
EmptyParsed ==
    [threw |-> FALSE, description |-> Undefined, amount |-> Undefined,
     currency |-> Undefined, merchant |-> Undefined, card |-> Undefined,
     account |-> Undefined, date |-> Undefined, num |-> 0, den |-> 1]

\* The confidence is the fraction num / den (matchCount / Object.keys(patterns).length).
tryParseWithPattern(text, patterns) ==
    LET descMatch     == match(text, Field(patterns, "description"))
        amountMatch   == match(text, Field(patterns, "amount"))
        merchantMatch == match(text, Field(patterns, "merchant"))
        cardMatch     == match(text, Field(patterns, "card"))
        accountMatch  == match(text, Field(patterns, "account"))
        dateMatch     == match(text, Field(patterns, "date"))
        Got(m, g)     == IF m.ok THEN Group(text, m, g) ELSE Undefined
        matchCount    == (IF descMatch.ok THEN 1 ELSE 0)
                         + (IF amountMatch.ok THEN 2 ELSE 0)
                         + (IF merchantMatch.ok THEN 1 ELSE 0)
                         + (IF cardMatch.ok THEN 1 ELSE 0)
                         + (IF accountMatch.ok THEN 1 ELSE 0)
                         + (IF dateMatch.ok THEN 1 ELSE 0)
    IN  IF \/ descMatch.ok /\ ~Group(text, descMatch, 1).def
           \/ merchantMatch.ok /\ ~Group(text, merchantMatch, 1).def
        THEN [EmptyParsed EXCEPT !.threw = TRUE]
        ELSE [threw       |-> FALSE,
              description |-> TrimOpt(Got(descMatch, 1)),
              amount      |-> Got(amountMatch, 1),
              currency    |-> Got(amountMatch, 2),
              merchant    |-> TrimOpt(Got(merchantMatch, 1)),
              card        |-> Got(cardMatch, 1),
              account     |-> Got(accountMatch, 1),
              date        |-> Got(dateMatch, 1),
              num         |-> matchCount,
              den         |-> Len(patterns)]

-----------------------------------------------------------------------------
(* utils.ts: the field normalizers *)

\* The characters of s at the positions that satisfy Keep, in order.
Positions(s) == [i \in 1..Len(s) |-> i]
Pick(s, Keep(_)) ==
    LET kept == SelectSeq(Positions(s), Keep) IN [k \in 1..Len(kept) |-> s[kept[k]]]

\* The maximal run of characters of class cls around position i of s.
RunStart(s, i, cls) ==
    LET out == {j \in 1..i : ~InClass(s[j], cls)} IN IF out = {} THEN 1 ELSE Max(out) + 1
RunEnd(s, i, cls) ==
    LET out == {j \in i..Len(s) : ~InClass(s[j], cls)}
    IN  IF out = {} THEN Len(s) ELSE Min(out) - 1

\* rawMerchant.replace(/[A-Z0-9]{8,}/g, ""): the greedy leftmost matches are
\* the maximal runs of [A-Z0-9] of length 8 or more.
StripCodes(s) ==
    Pick(s, LAMBDA i : ~(/\ InClass(s[i], "upnum")
                         /\ RunEnd(s, i, "upnum") - RunStart(s, i, "upnum") + 1 >= 8))

\* s.replace(/\s+/g, " "): each maximal run of white space becomes one space.
CollapseSpaces(s) ==
    LET first == Pick(Positions(s), LAMBDA i : ~(s[i] \in Space /\ i > 1 /\ s[i - 1] \in Space))
    IN  [k \in 1..Len(first) |-> IF s[first[k]] \in Space THEN SP ELSE s[first[k]]]

UnknownMerchant == L("Unknown Merchant")

\* A variant in which the matching rule registered last gives the name.
RECURSIVE FirstMerchant_latest(_, _, _)
FirstMerchant_latest(rules, s, i) ==
    IF i > Len(rules) THEN Undefined
    ELSE LET later == FirstMerchant_latest(rules, s, i + 1)
         IN  IF later.def THEN later
             ELSE IF test(rules[i].pattern, s) THEN Some(rules[i].normalizedName)
                  ELSE Undefined

\* The normalizedName of the first merchant rule from index i on that matches.
RECURSIVE FirstMerchant(_, _, _)
FirstMerchant(rules, s, i) ==
    IF i > Len(rules) THEN Undefined
    ELSE IF test(rules[i].pattern, s) THEN Some(rules[i].normalizedName)
         ELSE FirstMerchant(rules, s, i + 1)

\* A variant that collapses the white space before it removes the codes.
normalizeMerchant_stripLast(rawMerchant, merchantRules) ==
    IF rawMerchant = <<>> THEN UnknownMerchant
    ELSE LET normalized == trim(StripCodes(CollapseSpaces(rawMerchant)))
             hit        == FirstMerchant(merchantRules, normalized, 1)
         IN  IF hit.def THEN hit.v
             ELSE IF normalized # <<>> THEN normalized ELSE rawMerchant

normalizeMerchant(rawMerchant, merchantRules) ==
    IF rawMerchant = <<>> THEN UnknownMerchant
    ELSE LET normalized == trim(CollapseSpaces(StripCodes(rawMerchant)))
             hit        == FirstMerchant(merchantRules, normalized, 1)
         IN  IF hit.def THEN hit.v
             ELSE IF normalized # <<>> THEN normalized ELSE rawMerchant

\* new RegExp(`${indicator}\\s+([^\\n]+)`, "i")
IndicatorRe(indicator) ==
    RegExp(<<Lit(indicator), RepUnb("space", 1), Open(1), RepUnb("notnl", 1), Close(1)>>, TRUE)

merchantIndicators == <<Ar("mn"), Ar("<lY"), Ar("ldY"), Ar("End")>>

\* text.split(/\s+/): the maximal runs of non-space characters (the empty
\* strings split yields at the ends are dropped by the length filter).
Words(s) ==
    LET starts == SelectSeq(Positions(s),
                            LAMBDA i : s[i] \notin Space /\ (i = 1 \/ s[i - 1] \in Space))
    IN  [k \in 1..Len(starts) |->
            SubSeq(s, starts[k], starts[k] + RunLen(s, starts[k], "notspace", Len(s)) - 1)]

\* words.join(sep)
RECURSIVE Join(_, _)
Join(ws, sep) ==
    IF ws = <<>> THEN <<>>
    ELSE IF Len(ws) = 1 THEN ws[1]
         ELSE ws[1] \o sep \o Join(Tail(ws), sep)

RECURSIVE FirstIndicator(_, _)
FirstIndicator(text, i) ==
    IF i > Len(merchantIndicators) THEN Undefined
    ELSE LET m == match(text, Some(IndicatorRe(merchantIndicators[i])))
         IN  IF m.ok THEN Some(trim(Group(text, m, 1).v))
             ELSE FirstIndicator(text, i + 1)

extractMerchantFallback(text) ==
    LET byIndicator == FirstIndicator(text, 1)
        possibleMerchants ==
            SelectSeq(Words(text),
                      LAMBDA w : (\E j \in 1..Len(w) : w[j] \in Upper) /\ Len(w) > 2)
        joined == Join(possibleMerchants, <<SP>>)
    IN  IF byIndicator.def THEN byIndicator.v
        ELSE IF joined # <<>> THEN joined ELSE UnknownMerchant

formatAccountMasked(card, account) ==
    LET parts == (IF Truthy(card) THEN <<card.v>> ELSE <<>>)
                 \o (IF Truthy(account) THEN <<account.v>> ELSE <<>>)
        joined == Join(parts, L(" / "))
    IN  IF joined # <<>> THEN joined ELSE L("N/A")

\* /(\d{2})-(\d{2})-(\d{1,2})/
ddmmyyRe ==
    RegExp(<<Open(1), Rep("digit", 2, 2), Close(1), Lit(L("-")),
             Open(2), Rep("digit", 2, 2), Close(2), Lit(L("-")),
             Open(3), Rep("digit", 1, 2), Close(3)>>, FALSE)

\* /(\d{2})\/(\d{2})\/(\d{4})/
ddmmyyyyRe ==
    RegExp(<<Open(1), Rep("digit", 2, 2), Close(1), Lit(L("/")),
             Open(2), Rep("digit", 2, 2), Close(2), Lit(L("/")),
             Open(3), Rep("digit", 4, 4), Close(3)>>, FALSE)

\* Variant: the two-digit year is not expanded to 20YY.
normalizeDate_noCentury(dateStr, today) ==
    IF ~Truthy(dateStr) THEN today
    ELSE LET ddmmyyMatch   == match(dateStr.v, Some(ddmmyyRe))
             ddmmyyyyMatch == match(dateStr.v, Some(ddmmyyyyRe))
             G(m, g)       == Group(dateStr.v, m, g).v
             normalized    == IF ddmmyyMatch.ok
                              THEN G(ddmmyyMatch, 3) \o L("-") \o G(ddmmyyMatch, 2)
                                   \o L("-") \o G(ddmmyyMatch, 1)
                              ELSE dateStr.v
         IN  IF ddmmyyyyMatch.ok
             THEN G(ddmmyyyyMatch, 3) \o L("-") \o G(ddmmyyyyMatch, 2)
                  \o L("-") \o G(ddmmyyyyMatch, 1)
             ELSE normalized

\* Variant: the raw date is ignored and the current date returned.
normalizeDate_alwaysToday(dateStr, today) == today

\* Variant: DD/MM/YYYY is rebuilt as year, day, month.
normalizeDate_dayFirst(dateStr, today) ==
    IF ~Truthy(dateStr) THEN today
    ELSE LET ddmmyyMatch   == match(dateStr.v, Some(ddmmyyRe))
             ddmmyyyyMatch == match(dateStr.v, Some(ddmmyyyyRe))
             G(m, g)       == Group(dateStr.v, m, g).v
             year          == G(ddmmyyMatch, 3)
             fullYear      == IF Len(year) = 2 THEN L("20") \o year ELSE year
             normalized    == IF ddmmyyMatch.ok
                              THEN fullYear \o L("-") \o G(ddmmyyMatch, 2)
                                   \o L("-") \o G(ddmmyyMatch, 1)
                              ELSE dateStr.v
         IN  IF ddmmyyyyMatch.ok
             THEN G(ddmmyyyyMatch, 3) \o L("-") \o G(ddmmyyyyMatch, 1)
                  \o L("-") \o G(ddmmyyyyMatch, 2)
             ELSE normalized

\* today is new Date().toISOString().split("T")[0].
normalizeDate(dateStr, today) ==
    IF ~Truthy(dateStr) THEN today
    ELSE LET ddmmyyMatch   == match(dateStr.v, Some(ddmmyyRe))
             ddmmyyyyMatch == match(dateStr.v, Some(ddmmyyyyRe))
             G(m, g)       == Group(dateStr.v, m, g).v
             year          == G(ddmmyyMatch, 3)
             fullYear      == IF Len(year) = 2 THEN L("20") \o year ELSE year
             normalized    == IF ddmmyyMatch.ok
                              THEN fullYear \o L("-") \o G(ddmmyyMatch, 2)
                                   \o L("-") \o G(ddmmyyMatch, 1)
                              ELSE dateStr.v
         IN  IF ddmmyyyyMatch.ok
             THEN G(ddmmyyyyMatch, 3) \o L("-") \o G(ddmmyyyyMatch, 2)
                  \o L("-") \o G(ddmmyyyyMatch, 1)
             ELSE normalized

-----------------------------------------------------------------------------
(* utils.ts: classifyCategory *)

\* Variant: the rules are left in table order.
SortByPriority_unsorted(rules) == rules

\* Variant: a sort by priority that reverses the rules of equal priority.
RECURSIVE SortByPriority_lastOfTies(_)
SortByPriority_lastOfTies(rules) ==
    IF rules = <<>> THEN <<>>
    ELSE LET top == CHOOSE i \in 1..Len(rules) :
                       /\ \A j \in 1..Len(rules) : rules[j].priority <= rules[i].priority
                       /\ \A j \in (i + 1)..Len(rules) : rules[j].priority < rules[i].priority
         IN  <<rules[top]>>
             \o SortByPriority_lastOfTies(SubSeq(rules, 1, top - 1)
                                          \o SubSeq(rules, top + 1, Len(rules)))

\* [...rules].sort((a, b) => b.priority - a.priority): Array.prototype.sort is
\* stable, so rules of equal priority keep their table order.
RECURSIVE SortByPriority(_)
SortByPriority(rules) ==
    IF rules = <<>> THEN <<>>
    ELSE LET top == CHOOSE i \in 1..Len(rules) :
                       /\ \A j \in 1..Len(rules) : rules[j].priority <= rules[i].priority
                       /\ \A j \in 1..(i - 1) : rules[j].priority < rules[i].priority
         IN  <<rules[top]>>
             \o SortByPriority(SubSeq(rules, 1, top - 1) \o SubSeq(rules, top + 1, Len(rules)))

RuleFires(rule, text) ==
    \E k \in 1..Len(rule.keywords) : includes(text, toLowerCase(rule.keywords[k]))

RECURSIVE FirstRule(_, _, _)
FirstRule(sortedRules, text, i) ==
    IF i > Len(sortedRules) THEN Undefined
    ELSE IF RuleFires(sortedRules[i], text) THEN Some(sortedRules[i].category)
         ELSE FirstRule(sortedRules, text, i + 1)

\* Variant: a matching rule without a category ends the scan.
RECURSIVE FirstMerchantCategory_uncategorised(_, _, _)
FirstMerchantCategory_uncategorised(rules, text, i) ==
    IF i > Len(rules) THEN Undefined
    ELSE IF test(rules[i].pattern, text)
         THEN rules[i].category
         ELSE FirstMerchantCategory_uncategorised(rules, text, i + 1)

RECURSIVE FirstMerchantCategory(_, _, _)
FirstMerchantCategory(rules, text, i) ==
    IF i > Len(rules) THEN Undefined
    ELSE IF Truthy(rules[i].category) /\ test(rules[i].pattern, text)
         THEN rules[i].category
         ELSE FirstMerchantCategory(rules, text, i + 1)

classifyCategory(description, merchant, categoryRules, merchantRules) ==
    LET text        == toLowerCase(description \o <<SP>> \o merchant)
        sortedRules == SortByPriority(categoryRules)
        byRule      == FirstRule(sortedRules, text, 1)
        byMerchant  == FirstMerchantCategory(merchantRules, text, 1)
    IN  IF byRule.def THEN byRule.v
        ELSE IF byMerchant.def THEN byMerchant.v ELSE L("Other")

-----------------------------------------------------------------------------
(* utils.ts: detectRecurrence.  A confidence is counted in tenths.           *)

subscriptionKeywords ==
    <<L("spotify"), L("netflix"), L("prime"), L("subscription"), Ar("A$trAk")>>

utilityKeywords ==
    <<Ar("khrbA'"), Ar("myAh"), Ar("<ntrnt"), Ar("jwAl"),
      L("electricity"), L("water"), L("internet"), L("mobile")>>

SomeKeyword(keywords, merchant, description) ==
    \E k \in 1..Len(keywords) :
        \/ includes(toLowerCase(merchant), keywords[k])
        \/ includes(toLowerCase(description), keywords[k])

Tenths(n) == [def |-> TRUE, tenths |-> n]
NoConfidence == [def |-> FALSE, tenths |-> 0]

\* Variant: only a positive amount can recur.
detectRecurrence_positiveAmount(merchant, amount, description) ==
    IF amount.nan \/ amount.m <= 0
    THEN [isRecurring |-> FALSE, period |-> "undefined", confidence |-> NoConfidence]
    ELSE IF SomeKeyword(subscriptionKeywords, merchant, description)
    THEN [isRecurring |-> TRUE, period |-> "monthly", confidence |-> Tenths(8)]
    ELSE IF SomeKeyword(utilityKeywords, merchant, description)
         THEN [isRecurring |-> TRUE, period |-> "monthly", confidence |-> Tenths(7)]
         ELSE [isRecurring |-> FALSE, period |-> "undefined", confidence |-> NoConfidence]

\* Variant: the utility keywords are looked for first.
detectRecurrence_utilityFirst(merchant, amount, description) ==
    IF SomeKeyword(utilityKeywords, merchant, description)
    THEN [isRecurring |-> TRUE, period |-> "monthly", confidence |-> Tenths(7)]
    ELSE IF SomeKeyword(subscriptionKeywords, merchant, description)
         THEN [isRecurring |-> TRUE, period |-> "monthly", confidence |-> Tenths(8)]
         ELSE [isRecurring |-> FALSE, period |-> "undefined", confidence |-> NoConfidence]

\* utils.ts:218-254
detectRecurrence(merchant, amount, description) ==
    IF SomeKeyword(subscriptionKeywords, merchant, description)
    THEN [isRecurring |-> TRUE, period |-> "monthly", confidence |-> Tenths(8)]
    ELSE IF SomeKeyword(utilityKeywords, merchant, description)
         THEN [isRecurring |-> TRUE, period |-> "monthly", confidence |-> Tenths(7)]
         ELSE [isRecurring |-> FALSE, period |-> "undefined", confidence |-> NoConfidence]

-----------------------------------------------------------------------------
(* utils.ts: detectRecurrenceWithHistory *)

\* A transaction date is an ISO date YYYY-MM-DD, held as the number of days
\* from 1970-01-01 to it: new Date(tx.date) is midnight UTC of that day and
\* getTime() is 86400000 times that number.
DaysFromCivil(y, m, d) ==
    LET yy  == IF m <= 2 THEN y - 1 ELSE y
        era == yy \div 400
        yoe == yy - era * 400
        mp  == IF m > 2 THEN m - 3 ELSE m + 9
        doy == (153 * mp + 2) \div 5 + d - 1
        doe == yoe * 365 + yoe \div 4 - yoe \div 100 + doy
    IN  era * 146097 + doe - 719468

\* The calendar date of a day number.
CivilFromDays(day) ==
    LET z   == day + 719468
        era == z \div 146097
        doe == z - era * 146097
        yoe == (doe - doe \div 1460 + doe \div 36524 - doe \div 146096) \div 365
        doy == doe - (365 * yoe + yoe \div 4 - yoe \div 100)
        mp  == (5 * doy + 2) \div 153
        d   == doy - (153 * mp + 2) \div 5 + 1
        m   == IF mp < 10 THEN mp + 3 ELSE mp - 9
    IN  [y |-> yoe + era * 400 + (IF m <= 2 THEN 1 ELSE 0), m |-> m, d |-> d]

WeekdayNames == <<L("Sun"), L("Mon"), L("Tue"), L("Wed"), L("Thu"), L("Fri"), L("Sat")>>

MonthNames ==
    <<L("Jan"), L("Feb"), L("Mar"), L("Apr"), L("May"), L("Jun"),
      L("Jul"), L("Aug"), L("Sep"), L("Oct"), L("Nov"), L("Dec")>>

\* n in decimal, padded with zeros to w digits.
Digits(n, w) == [i \in 1..w |-> DigitSeq[((n \div (10 ^ (w - i))) % 10) + 1]]

\* Date.prototype.toString() of midnight UTC of a day, read in a UTC process:
\* "Sun Jun 08 2025 00:00:00 GMT+0000 (Coordinated Universal Time)".  The part
\* after the year is the same for every date and is left out.
DateToString(day) ==
    LET c == CivilFromDays(day)
    IN  WeekdayNames[((day + 4) % 7) + 1] \o <<SP>> \o MonthNames[c.m] \o <<SP>>
        \o Digits(c.d, 2) \o <<SP>> \o Digits(c.y, 4)

\* The UTF-16 order of the characters of a date string.
CharOrder == <<SP>> \o DigitSeq \o UpperSeq \o LowerSeq

CodeUnit(c) == CHOOSE i \in 1..Len(CharOrder) : CharOrder[i] = c

\* a < b on strings: by the first code unit in which they differ.
StringLess(a, b) ==
    \/ \E i \in 1..Min({Len(a), Len(b)}) :
          /\ SubSeq(a, 1, i - 1) = SubSeq(b, 1, i - 1)
          /\ CodeUnit(a[i]) < CodeUnit(b[i])
    \/ Len(a) < Len(b) /\ SubSeq(b, 1, Len(a)) = a

\* Variant: the dates are sorted by their time value.
RECURSIVE SortDates_byTime(_)
SortDates_byTime(dates) ==
    IF dates = <<>> THEN <<>>
    ELSE LET first == CHOOSE i \in 1..Len(dates) :
                         /\ \A j \in 1..Len(dates) : dates[i] <= dates[j]
                         /\ \A j \in 1..(i - 1) : dates[j] # dates[i]
         IN  <<dates[first]>>
             \o SortDates_byTime(SubSeq(dates, 1, first - 1)
                                 \o SubSeq(dates, first + 1, Len(dates)))

\* utils.ts:276: dates.sort() with no compare function orders the elements by
\* their string conversions, ascending and stable.
RECURSIVE SortDates(_)
SortDates(dates) ==
    IF dates = <<>> THEN <<>>
    ELSE LET first == CHOOSE i \in 1..Len(dates) :
                         /\ \A j \in 1..Len(dates) :
                                ~StringLess(DateToString(dates[j]), DateToString(dates[i]))
                         /\ \A j \in 1..(i - 1) :
                                StringLess(DateToString(dates[j]), DateToString(dates[i]))
                                \/ StringLess(DateToString(dates[i]), DateToString(dates[j]))
         IN  <<dates[first]>>
             \o SortDates(SubSeq(dates, 1, first - 1) \o SubSeq(dates, first + 1, Len(dates)))

RECURSIVE Sum(_)
Sum(xs) == IF xs = <<>> THEN 0 ELSE Head(xs) + Sum(Tail(xs))

Abs(x) == IF x < 0 THEN -x ELSE x

\* A variant whose tolerance is a tenth of the history amount.
Similar_ownTolerance(tx, currentTransaction) ==
    /\ tx.merchant = currentTransaction.merchant
    /\ 10 * Abs(tx.amount - currentTransaction.amount) <= tx.amount

\* utils.ts:267-270: amounts are whole numbers, so that
\* |a - c| <= c * 0.1 is 10 * |a - c| <= c.
Similar(tx, currentTransaction) ==
    /\ tx.merchant = currentTransaction.merchant
    /\ 10 * Abs(tx.amount - currentTransaction.amount) <= currentTransaction.amount

\* utils.ts:279-283: the differences, in days, of neighbours of the sorted dates.
Intervals(dates) == [i \in 1..(Len(dates) - 1) |-> dates[i + 1] - dates[i]]

NotRecurring == [isRecurring |-> FALSE, period |-> "undefined", confidence |-> Tenths(0)]

\* A variant that reports an irregular or unclassified history as recurring
\* with confidence 0.
ClassifyIntervals_alwaysRecurring(intervals) ==
    LET n == Len(intervals)
        S == Sum(intervals)
    IN  IF 25 * n <= S /\ S <= 35 * n
        THEN [isRecurring |-> TRUE, period |-> "monthly", confidence |-> Tenths(9)]
        ELSE [isRecurring |-> TRUE, period |-> "daily", confidence |-> Tenths(0)]

\* utils.ts:285-318 on whole-day intervals.  With n intervals of sum S and
\* sum of squares Q: avgInterval = S / n, variance = (n * Q - S * S) / (n * n),
\* so standardDeviation < avgInterval * 0.2 is S > 0 and
\* 25 * (n * Q - S * S) < S * S, and a <= avgInterval is a * n <= S.
ClassifyIntervals(intervals) ==
    LET n == Len(intervals)
        S == Sum(intervals)
        Q == Sum([i \in 1..n |-> intervals[i] * intervals[i]])
        isRegular == S > 0 /\ 25 * (n * Q - S * S) < S * S
    IN  IF ~isRegular THEN NotRecurring
        ELSE IF 25 * n <= S /\ S <= 35 * n
             THEN [isRecurring |-> TRUE, period |-> "monthly", confidence |-> Tenths(9)]
        ELSE IF 6 * n <= S /\ S <= 8 * n
             THEN [isRecurring |-> TRUE, period |-> "weekly", confidence |-> Tenths(8)]
        ELSE IF 360 * n <= S /\ S <= 370 * n
             THEN [isRecurring |-> TRUE, period |-> "yearly", confidence |-> Tenths(8)]
        ELSE IF 4 * n <= 5 * S /\ 5 * S <= 6 * n
             THEN [isRecurring |-> TRUE, period |-> "daily", confidence |-> Tenths(7)]
        ELSE NotRecurring

\* utils.ts:267-270: the local similarTransactions of a call.
SimilarTransactions(currentTransaction, historicalTransactions) ==
    SelectSeq(historicalTransactions, LAMBDA tx : Similar(tx, currentTransaction))

\* utils.ts:267-283: the local intervals of a call, none when it returns
\* before it computes them.
HistoryIntervals(currentTransaction, historicalTransactions) ==
    LET similarTransactions ==
            SelectSeq(historicalTransactions, LAMBDA tx : Similar(tx, currentTransaction))
        dates == SortDates([i \in 1..Len(similarTransactions) |->
                               similarTransactions[i].date])
    IN  IF Len(similarTransactions) < 2 THEN <<>> ELSE Intervals(dates)

detectRecurrenceWithHistory(currentTransaction, historicalTransactions) ==
    LET similarTransactions ==
            SelectSeq(historicalTransactions, LAMBDA tx : Similar(tx, currentTransaction))
        dates == SortDates([i \in 1..Len(similarTransactions) |->
                               similarTransactions[i].date])
    IN  IF Len(similarTransactions) < 2 THEN NotRecurring
        ELSE ClassifyIntervals(Intervals(dates))

-----------------------------------------------------------------------------
(* utils.ts: parseTransaction *)

\* A variant in which a tie replaces the incumbent.
Better_orEqual(result, parsedData) ==
    /\ result.num > 0
    /\ result.num * parsedData.den >= parsedData.num * result.den

\* result.confidence > (parsedData.confidence || 0), on fractions.
Better(result, parsedData) == result.num * parsedData.den > parsedData.num * result.den

\* A variant that takes the card from any set that matched one when the best
\* set did not.
RECURSIVE BestMatch_merging(_, _, _, _)
BestMatch_merging(rawText, registry, i, best) ==
    IF i > Len(registry) THEN best
    ELSE LET result == tryParseWithPattern(rawText, registry[i].patterns)
             card   == IF Truthy(best.parsedData.card) THEN best.parsedData.card
                       ELSE result.card
         IN  IF result.threw THEN [best EXCEPT !.parsedData.threw = TRUE]
             ELSE IF Better(result, best.parsedData)
                  THEN BestMatch_merging(rawText, registry, i + 1,
                           [parsedData |-> [result EXCEPT !.card =
                                               IF Truthy(@) THEN @ ELSE best.parsedData.card],
                            detectedBank |-> registry[i].name])
                  ELSE BestMatch_merging(rawText, registry, i + 1,
                                         [best EXCEPT !.parsedData.card = card])

\* The loop over Object.entries(BANK_PATTERNS) from entry i on; best is
\* [parsedData, detectedBank].  An exception of tryParseWithPattern ends it.
RECURSIVE BestMatch(_, _, _, _)
BestMatch(rawText, registry, i, best) ==
    IF i > Len(registry) THEN best
    ELSE LET result == tryParseWithPattern(rawText, registry[i].patterns)
         IN  IF result.threw THEN [best EXCEPT !.parsedData.threw = TRUE]
             ELSE IF Better(result, best.parsedData)
                  THEN BestMatch(rawText, registry, i + 1,
                                 [parsedData |-> result, detectedBank |-> registry[i].name])
                  ELSE BestMatch(rawText, registry, i + 1, best)

\* rawText.trim().split("\n").map(trim)[0]
FirstLine(rawText) ==
    LET t == trim(rawText)
        n == IF \E i \in 1..Len(t) : t[i] = NL
             THEN (CHOOSE i \in 1..Len(t) : t[i] = NL /\ \A j \in 1..(i - 1) : t[j] # NL) - 1
             ELSE Len(t)
    IN  trim(SubSeq(t, 1, n))

Thrown == [threw |-> TRUE]

\* utils.ts:12-22: the loop, from parsedData = {} and detectedBank = "generic".
DetectBank(rawText, registry) ==
    BestMatch(rawText, registry, 1, [parsedData |-> EmptyParsed, detectedBank |-> "generic"])

\* utils.ts:24-49: the record built from the winner best of the loop.
BuildTransaction(rawText, best, merchantRules, categoryRules, today) ==
    LET parsedData  == best.parsedData
        description == IF Truthy(parsedData.description) THEN parsedData.description.v
                       ELSE FirstLine(rawText)
        stripped    == IF parsedData.amount.def THEN StripCommas(parsedData.amount.v)
                       ELSE <<>>
        amount      == parseFloat(IF stripped # <<>> THEN stripped ELSE L("0"))
        currency    == IF Truthy(parsedData.currency) THEN parsedData.currency.v
                       ELSE L("SAR")
        merchant    == normalizeMerchant(
                           IF Truthy(parsedData.merchant) THEN parsedData.merchant.v
                           ELSE extractMerchantFallback(rawText),
                           merchantRules)
    IN  IF parsedData.threw THEN Thrown
        ELSE [threw         |-> FALSE,
              description   |-> description,
              amount        |-> amount,
              currency      |-> currency,
              merchant      |-> merchant,
              accountMasked |-> formatAccountMasked(parsedData.card, parsedData.account),
              date          |-> normalizeDate(parsedData.date, today),
              category      |-> classifyCategory(description, merchant,
                                                 categoryRules, merchantRules),
              recurrence    |-> detectRecurrence(merchant, amount, description),
              rawText       |-> rawText,
              bankFormat    |-> best.detectedBank]

parseTransaction(rawText, registry, merchantRules, categoryRules, today) ==
    BuildTransaction(rawText, DetectBank(rawText, registry),
                     merchantRules, categoryRules, today)

-----------------------------------------------------------------------------
(* The inputs of the model *)

MaxLines == 2    \* lines of a generated notification text
MaxAdds  == 2    \* add operations in one run
MaxTicks == 1    \* midnights passed in one run

\* The current calendar date after clock midnights, from 2025-06-08 on.
Today(c) == L("2025-06-") \o (IF 8 + c < 10 THEN L("0") ELSE <<>>)
            \o (IF 8 + c >= 10 THEN <<DigitSeq[((8 + c) \div 10) + 1]>> ELSE <<>>)
            \o <<DigitSeq[((8 + c) % 10) + 1]>>

\* The documented notification (index.ts /docs, spec section 8).
SpotifyText ==
    Ar("$rA'") \o L(" ") \o Ar("<ntrnt") \o <<NL>>
    \o Ar("b_") \o L(" 21.99 SAR") \o <<NL>>
    \o Ar("mn") \o L(" Spotify AB P3781C3C72") \o <<NL>>
    \o Ar("mdY") \o L(" 3180*") \o <<NL>>
    \o Ar("HsAb") \o L(" 0165*") \o <<NL>>
    \o Ar("fy") \o L("08-06-25")

\* Lines a notification is made of: each field in several raw shapes.
TextLines ==
    << L("  "),
       Ar("$rA'") \o L(" ") \o Ar("<ntrnt"),
       L("Netflix.com 4.99"),
       Ar("b_") \o L(" 21.99 SAR"),
       Ar("b_") \o L(" . SAR"),
       Ar("b_") \o L(", SAR"),
       Ar("mblg") \o L(" 1,200.50 USD"),
       Ar("mn") \o L(" Spotify AB P3781C3C72"),
       Ar("mdY") \o L(" 3180*"),
       Ar("HsAb") \o L(" 0165*"),
       Ar("fy") \o L("08-06-25"),
       Ar("fy") \o L(" 08-06-2025"),
       Ar("btAryx") \o L(" 8/6/25"),
       Ar("fy") \o L("08-06-5") >>

\* Every text of at most MaxLines of these lines, and the documented one.
LineChoices == UNION { [1..n -> 1..Len(TextLines)] : n \in 0..MaxLines }

Texts ==
    { Join([i \in DOMAIN f |-> TextLines[f[i]]], <<NL>>) : f \in LineChoices }
    \cup {SpotifyText}

\* Texts parsed while the rule tables change.
SpecTexts ==
    { Ar("mn") \o L(" Spotify AB") \o <<NL>> \o Ar("fy") \o L("08-06-25"),
      L("Netflix.com 4.99"),
      L("ATM cash") \o <<NL>> \o Ar("mn") \o L(" Starbucks cinema") }

\* Arguments of addCategoryRule: keywords, category, and priority or nothing.
CategoryRuleInputs ==
    { [keywords |-> <<L("Spotify")>>, category |-> L("Music"), priority |-> Some(95)],
      [keywords |-> <<L("cinema"), L("spotify")>>, category |-> L("Fun"),
       priority |-> Undefined] }

\* Arguments of addMerchantPattern.
MerchantPatternInputs ==
    { [pattern |-> RegExp(<<Lit(L("netflix")), RepUnb("notnl", 0)>>, TRUE),
       normalizedName |-> L("Netflix Inc"), category |-> Some(L("Streaming"))] }

\* Arguments of addBankPattern.
BankPatternInputs ==
    { [name |-> "custom",
       patterns |-> << [key |-> "description", pattern |-> DescriptionRe],
                       [key |-> "merchant", pattern |-> LineRe(<<L("ATM")>>)] >>],
      [name |-> "generic",
       patterns |-> << [key |-> "description", pattern |-> DescriptionRe],
                       [key |-> "amount", pattern |-> AmountRe(<<L(".com")>>)],
                       [key |-> "merchant", pattern |-> LineRe(<<Ar("mn")>>)] >>] }

-----------------------------------------------------------------------------
(* The state machine *)

Idle   == [op |-> "idle"]
NoCall == [op |-> "none"]

\* What a completed parseTransaction(rawText) keeps of the call completed just
\* before it: its result when that call parsed the same text, so that no add
\* operation lies between the two.
Earlier(r, rawText) ==
    IF r.op = "parseTransaction" /\ r.rawText = rawText
    THEN [op |-> r.op, rawText |-> r.rawText, value |-> r.value,
          parsedData |-> r.parsedData, today |-> r.today]
    ELSE NoCall

Init ==
    /\ BANK_PATTERNS = BANK_PATTERNS_0
    /\ MERCHANT_PATTERNS = MERCHANT_PATTERNS_0
    /\ CATEGORY_RULES = CATEGORY_RULES_0
    /\ adds = 0
    /\ clock = 0
    /\ req = Idle
    /\ ret = NoCall
    /\ NoHttp

\* A caller invokes parseTransaction(rawText).
Call ==
    /\ req = Idle
    /\ \E t \in SpecTexts : req' = [op |-> "parseTransaction", rawText |-> t]
    /\ UNCHANGED <<BANK_PATTERNS, MERCHANT_PATTERNS, CATEGORY_RULES, adds, clock, ret, httpVars>>

\* A variant in which classifyCategory sorts CATEGORY_RULES itself, not a copy.
ParseTransaction_sortsInPlace ==
    /\ req.op = "parseTransaction"
    /\ \E best \in {DetectBank(req.rawText, BANK_PATTERNS)} :
           ret' = [op         |-> "parseTransaction",
                   rawText    |-> req.rawText,
                   value      |-> BuildTransaction(req.rawText, best, MERCHANT_PATTERNS,
                                                   CATEGORY_RULES, Today(clock)),
                   parsedData |-> best.parsedData,
                   today      |-> Today(clock),
                   prev       |-> Earlier(ret, req.rawText)]
    /\ req' = Idle
    /\ CATEGORY_RULES' = SortByPriority(CATEGORY_RULES)
    /\ UNCHANGED <<BANK_PATTERNS, MERCHANT_PATTERNS, adds, clock, httpVars>>

\* utils.ts:9-50: parseTransaction runs to its return or its exception.  The
\* completed call keeps its result, the local parsedData of the winning
\* pattern set and the date the clock showed.
ParseTransaction ==
    /\ req.op = "parseTransaction"
    /\ \E best \in {DetectBank(req.rawText, BANK_PATTERNS)} :
           ret' = [op         |-> "parseTransaction",
                   rawText    |-> req.rawText,
                   value      |-> BuildTransaction(req.rawText, best, MERCHANT_PATTERNS,
                                                   CATEGORY_RULES, Today(clock)),
                   parsedData |-> best.parsedData,
                   today      |-> Today(clock),
                   prev       |-> Earlier(ret, req.rawText)]
    /\ req' = Idle
    /\ UNCHANGED <<BANK_PATTERNS, MERCHANT_PATTERNS, CATEGORY_RULES, adds, clock, httpVars>>

DefaultPriority == 50   \* priority = 50

\* A variant that puts the new rule first.
addCategoryRule_unshift(rules, keywords, category, priority) ==
    <<[keywords |-> keywords, category |-> category,
       priority |-> IF priority.def THEN priority.v ELSE DefaultPriority]>> \o rules

\* utils.ts:324-326; priority is the argument or nothing.
addCategoryRule(rules, keywords, category, priority) ==
    Append(rules, [keywords |-> keywords, category |-> category,
                   priority |-> IF priority.def THEN priority.v ELSE DefaultPriority])

AddCategoryRule ==
    /\ req = Idle
    /\ adds < MaxAdds
    /\ \E r \in CategoryRuleInputs :
          /\ CATEGORY_RULES' = addCategoryRule(CATEGORY_RULES, r.keywords, r.category,
                                               r.priority)
          /\ ret' = [op |-> "addCategoryRule", keywords |-> r.keywords,
                     category |-> r.category, priority |-> r.priority]
    /\ adds' = adds + 1
    /\ UNCHANGED <<BANK_PATTERNS, MERCHANT_PATTERNS, clock, req, httpVars>>

\* utils.ts:331-333
addMerchantPattern(rules, pattern, normalizedName, category) ==
    Append(rules, [pattern |-> pattern, normalizedName |-> normalizedName,
                   category |-> category])

AddMerchantPattern ==
    /\ req = Idle
    /\ adds < MaxAdds
    /\ \E r \in MerchantPatternInputs :
          /\ MERCHANT_PATTERNS' = addMerchantPattern(MERCHANT_PATTERNS, r.pattern,
                                                     r.normalizedName, r.category)
          /\ ret' = [op |-> "addMerchantPattern", pattern |-> r.pattern,
                     normalizedName |-> r.normalizedName, category |-> r.category]
    /\ adds' = adds + 1
    /\ UNCHANGED <<BANK_PATTERNS, CATEGORY_RULES, clock, req, httpVars>>

\* utils.ts:338-340: BANK_PATTERNS[bankName] = patterns.  An existing key keeps
\* its place in the enumeration order and takes the new value; a new key
\* goes last.
addBankPattern(registry, bankName, patterns) ==
    IF \E i \in 1..Len(registry) : registry[i].name = bankName
    THEN [i \in 1..Len(registry) |->
            IF registry[i].name = bankName
            THEN [name |-> bankName, patterns |-> patterns]
            ELSE registry[i]]
    ELSE Append(registry, [name |-> bankName, patterns |-> patterns])

AddBankPattern ==
    /\ req = Idle
    /\ adds < MaxAdds
    /\ \E b \in BankPatternInputs :
          /\ BANK_PATTERNS' = addBankPattern(BANK_PATTERNS, b.name, b.patterns)
          /\ ret' = [op |-> "addBankPattern", bankName |-> b.name, patterns |-> b.patterns]
    /\ adds' = adds + 1
    /\ UNCHANGED <<MERCHANT_PATTERNS, CATEGORY_RULES, clock, req, httpVars>>

\* Midnight (UTC) passes.
Tick ==
    /\ clock < MaxTicks
    /\ clock' = clock + 1
    /\ UNCHANGED <<BANK_PATTERNS, MERCHANT_PATTERNS, CATEGORY_RULES, adds, req, ret, httpVars>>

Next ==
    \/ Call
    \/ ParseTransaction
    \/ AddCategoryRule
    \/ AddMerchantPattern
    \/ AddBankPattern
    \/ Tick

Spec == Init /\ [][Next]_vars

\* parseTransaction on every text of Texts, with the tables as shipped.
InitBuiltin ==
    /\ BANK_PATTERNS = BANK_PATTERNS_0
    /\ MERCHANT_PATTERNS = MERCHANT_PATTERNS_0
    /\ CATEGORY_RULES = CATEGORY_RULES_0
    /\ adds = 0
    /\ clock = 0
    /\ req \in { [op |-> "parseTransaction", rawText |-> t] : t \in Texts }
    /\ ret = NoCall
    /\ NoHttp

NextBuiltin == ParseTransaction

SpecBuiltin == InitBuiltin /\ [][NextBuiltin]_vars

\* Raw dates handed to normalizeDate: day, month and year of one to four
\* digits, joined by "-" or "/"; no raw date; the empty string.
DayInputs   == {L("8"), L("08"), L("31")}
MonthInputs == {L("6"), L("06"), L("12")}
YearInputs  == {L("5"), L("25"), L("99"), L("2025"), L("1999")}
SepInputs   == {"-", "/"}

DateInputs ==
    { Some(d \o <<s1>> \o m \o <<s2>> \o y) :
        d \in DayInputs, m \in MonthInputs, y \in YearInputs,
        s1 \in SepInputs, s2 \in SepInputs }
    \cup {Undefined, Some(<<>>)}

\* normalizeDate on every raw date of DateInputs, on either side of midnight.
InitDate ==
    /\ BANK_PATTERNS = BANK_PATTERNS_0
    /\ MERCHANT_PATTERNS = MERCHANT_PATTERNS_0
    /\ CATEGORY_RULES = CATEGORY_RULES_0
    /\ adds = 0
    /\ clock \in 0..MaxTicks
    /\ req \in { [op |-> "normalizeDate", dateStr |-> d] : d \in DateInputs }
    /\ ret = NoCall
    /\ NoHttp

\* utils.ts:163-184
NormalizeDate ==
    /\ req.op = "normalizeDate"
    /\ ret' = [op      |-> "normalizeDate",
               dateStr |-> req.dateStr,
               value   |-> normalizeDate(req.dateStr, Today(clock)),
               today   |-> Today(clock)]
    /\ req' = Idle
    /\ UNCHANGED <<BANK_PATTERNS, MERCHANT_PATTERNS, CATEGORY_RULES, adds, clock, httpVars>>

NextDate == NormalizeDate

SpecDate == InitDate /\ [][NextDate]_vars

\* Arguments of detectRecurrence: merchants and descriptions with a
\* subscription keyword, a utility keyword, both or neither, in either case.
MerchantInputs ==
    { L("Spotify"), L("NETFLIX"), L("Amazon Prime"), L("STC Internet"),
      L("Starbucks"), Ar("$rkp") \o L(" ") \o Ar("AlkhrbA'"),
      L("Unknown Merchant"), L("Water Subscription Co") }

DescriptionInputs ==
    { <<>>, L("Purchase"), L("MOBILE top-up"), L("Internet SUBSCRIPTION"),
      Ar("tjdyd") \o L(" ") \o Ar("A$trAk"),
      Ar("fAtwrp") \o L(" ") \o Ar("AlmyAh"),
      Ar("$rA'") \o L(" ") \o Ar("<ntrnt") }

AmountInputs == { Decimal(0, 0), Decimal(2199, 2), Decimal(-5, 0), NaN }

InitHeuristic ==
    /\ BANK_PATTERNS = BANK_PATTERNS_0
    /\ MERCHANT_PATTERNS = MERCHANT_PATTERNS_0
    /\ CATEGORY_RULES = CATEGORY_RULES_0
    /\ adds = 0
    /\ clock = 0
    /\ req \in { [op |-> "detectRecurrence", merchant |-> m, amount |-> a,
                  description |-> d, of |-> NoCall] :
                  m \in MerchantInputs, a \in AmountInputs, d \in DescriptionInputs }
    /\ ret = NoCall
    /\ NoHttp

\* utils.ts:218-254.  The completed call keeps the call it repeats with
\* another amount, if any.
DetectRecurrence ==
    /\ req.op = "detectRecurrence"
    /\ ret' = [op          |-> "detectRecurrence",
               merchant    |-> req.merchant,
               amount      |-> req.amount,
               description |-> req.description,
               value       |-> detectRecurrence(req.merchant, req.amount, req.description),
               of          |-> req.of]
    /\ req' = Idle
    /\ UNCHANGED <<BANK_PATTERNS, MERCHANT_PATTERNS, CATEGORY_RULES, adds, clock, httpVars>>

\* A caller repeats a completed detectRecurrence call with another amount.
DetectAgain ==
    /\ req = Idle
    /\ ret.op = "detectRecurrence"
    /\ ret.of = NoCall
    /\ \E a \in AmountInputs \ {ret.amount} :
          req' = [op |-> "detectRecurrence", merchant |-> ret.merchant, amount |-> a,
                  description |-> ret.description,
                  of |-> [op |-> "detectRecurrence", amount |-> ret.amount,
                          value |-> ret.value]]
    /\ UNCHANGED <<BANK_PATTERNS, MERCHANT_PATTERNS, CATEGORY_RULES, adds, clock, ret, httpVars>>

NextHeuristic ==
    \/ DetectRecurrence
    \/ DetectAgain

SpecHeuristic == InitHeuristic /\ [][NextHeuristic]_vars

\* Histories handed to detectRecurrenceWithHistory: payments to one merchant
\* of one amount, the first on one of seven successive days from 2025-01-01
\* and each next one a chosen number of days after the one before it.
MaxGaps == 3    \* gaps between the payments of a history

GapChoices == {1, 5, 7, 10, 29, 30, 31, 40, 365}

FirstDays == { DaysFromCivil(2025, 1, 1) + k : k \in 0..6 }

GapSeqs == UNION { [1..n -> GapChoices] : n \in 0..MaxGaps }

RECURSIVE DatesFrom(_, _)
DatesFrom(first, gaps) ==
    IF gaps = <<>> THEN <<first>>
    ELSE <<first>> \o DatesFrom(first + Head(gaps), Tail(gaps))

History(first, gaps) ==
    LET dates == DatesFrom(first, gaps)
    IN  [i \in 1..Len(dates) |->
            [merchant |-> L("Spotify"), amount |-> 22, date |-> dates[i]]]

InitHistory ==
    /\ BANK_PATTERNS = BANK_PATTERNS_0
    /\ MERCHANT_PATTERNS = MERCHANT_PATTERNS_0
    /\ CATEGORY_RULES = CATEGORY_RULES_0
    /\ adds = 0
    /\ clock = 0
    /\ req \in { [op |-> "detectRecurrenceWithHistory",
                  currentTransaction |-> [merchant |-> L("Spotify"), amount |-> 22],
                  historicalTransactions |-> History(f, g),
                  gaps |-> g] :
                  f \in FirstDays, g \in GapSeqs }
    /\ ret = NoCall
    /\ NoHttp

\* utils.ts:259-319.  The completed call keeps its local similarTransactions
\* and intervals.
DetectRecurrenceWithHistory ==
    /\ req.op = "detectRecurrenceWithHistory"
    /\ ret' = [op    |-> "detectRecurrenceWithHistory",
               currentTransaction     |-> req.currentTransaction,
               historicalTransactions |-> req.historicalTransactions,
               gaps  |-> req.gaps,
               similar   |-> SimilarTransactions(req.currentTransaction,
                                                 req.historicalTransactions),
               intervals |-> HistoryIntervals(req.currentTransaction,
                                              req.historicalTransactions),
               value |-> detectRecurrenceWithHistory(req.currentTransaction,
                                                     req.historicalTransactions)]
    /\ req' = Idle
    /\ UNCHANGED <<BANK_PATTERNS, MERCHANT_PATTERNS, CATEGORY_RULES, adds, clock, httpVars>>

NextHistory == DetectRecurrenceWithHistory

SpecHistory == InitHistory /\ [][NextHistory]_vars

-----------------------------------------------------------------------------
(* Both recurrence detectors, each on its inputs *)

InitRecurrence ==
    /\ BANK_PATTERNS = BANK_PATTERNS_0
    /\ MERCHANT_PATTERNS = MERCHANT_PATTERNS_0
    /\ CATEGORY_RULES = CATEGORY_RULES_0
    /\ adds = 0
    /\ clock = 0
    /\ req \in { [op |-> "detectRecurrence", merchant |-> m, amount |-> a,
                  description |-> d, of |-> NoCall] :
                  m \in MerchantInputs, a \in AmountInputs, d \in DescriptionInputs }
              \cup
              { [op |-> "detectRecurrenceWithHistory",
                 currentTransaction |-> [merchant |-> L("Spotify"), amount |-> 22],
                 historicalTransactions |-> History(f, g),
                 gaps |-> g] :
                 f \in {DaysFromCivil(2025, 1, 1), DaysFromCivil(2025, 1, 6)},
                 g \in GapSeqs }
    /\ ret = NoCall
    /\ NoHttp

NextRecurrence ==
    \/ DetectRecurrence
    \/ DetectRecurrenceWithHistory

SpecRecurrence == InitRecurrence /\ [][NextRecurrence]_vars

-----------------------------------------------------------------------------
(* detectRecurrenceWithHistory on histories of several merchants and amounts *)

MaxHistory == 3    \* transactions of a mixed history

\* A history transaction: the merchant of the current transaction or the
\* same name in another case, an amount at or beyond the edge of the
\* tolerance around 20, and one of two dates.
MixedTransactions ==
    { [merchant |-> m, amount |-> a, date |-> DaysFromCivil(2025, 1, 1) + d] :
        m \in {L("Spotify"), L("spotify")}, a \in {18, 22, 23}, d \in {0, 30} }

MixedHistories == UNION { [1..n -> MixedTransactions] : n \in 0..MaxHistory }

\* The current transaction, of a positive or a negative amount.
CurrentTransactions == { [merchant |-> L("Spotify"), amount |-> a] : a \in {20, -20} }

InitSimilar ==
    /\ BANK_PATTERNS = BANK_PATTERNS_0
    /\ MERCHANT_PATTERNS = MERCHANT_PATTERNS_0
    /\ CATEGORY_RULES = CATEGORY_RULES_0
    /\ adds = 0
    /\ clock = 0
    /\ req \in { [op |-> "detectRecurrenceWithHistory",
                  currentTransaction |-> c,
                  historicalTransactions |-> h,
                  gaps |-> <<>>] :
                  c \in CurrentTransactions, h \in MixedHistories }
    /\ ret = NoCall
    /\ NoHttp

SpecSimilar == InitSimilar /\ [][NextHistory]_vars

-----------------------------------------------------------------------------
(* normalizeMerchant on its own, and on its own result *)

MaxPieces == 2    \* pieces of a generated merchant string

MerchantPieces ==
    { L("Spotify"), L(" TXN12345678 AB"), L("NETFLIX"), L("Netflix"), L("Amazon Prime"),
      L("amazon"), L(" prime"), L("Starbucks"), L("Carrefour"), Ar("kArfwr"), L("Uber"),
      L("Careem"), Ar("krym"), L("Unknown Merchant"), L("  "), L("ABCD1234"), L("Cafe") }

RECURSIVE RawMerchants(_)
RawMerchants(n) ==
    IF n = 0 THEN {<<>>}
    ELSE RawMerchants(n - 1) \cup {s \o q : s \in RawMerchants(n - 1), q \in MerchantPieces}

InitMerchant ==
    /\ BANK_PATTERNS = BANK_PATTERNS_0
    /\ MERCHANT_PATTERNS = MERCHANT_PATTERNS_0
    /\ CATEGORY_RULES = CATEGORY_RULES_0
    /\ adds = 0
    /\ clock = 0
    /\ req \in { [op |-> "normalizeMerchant", rawMerchant |-> x, of |-> NoCall] :
                  x \in RawMerchants(MaxPieces) }
    /\ ret = NoCall
    /\ NoHttp

\* utils.ts:109-126.  The completed call keeps the call whose result it was
\* given, if any.
NormalizeMerchant ==
    /\ req.op = "normalizeMerchant"
    /\ ret' = [op          |-> "normalizeMerchant",
               rawMerchant |-> req.rawMerchant,
               value       |-> normalizeMerchant(req.rawMerchant, MERCHANT_PATTERNS),
               of          |-> req.of]
    /\ req' = Idle
    /\ UNCHANGED <<BANK_PATTERNS, MERCHANT_PATTERNS, CATEGORY_RULES, adds, clock, httpVars>>

\* A caller hands the result of normalizeMerchant(x) to normalizeMerchant.
Renormalize ==
    /\ req = Idle
    /\ ret.op = "normalizeMerchant"
    /\ ret.of = NoCall
    /\ req' = [op |-> "normalizeMerchant", rawMerchant |-> ret.value,
               of |-> [op |-> "normalizeMerchant", rawMerchant |-> ret.rawMerchant,
                       value |-> ret.value]]
    /\ UNCHANGED <<BANK_PATTERNS, MERCHANT_PATTERNS, CATEGORY_RULES, adds, clock, ret, httpVars>>

NextMerchant ==
    \/ NormalizeMerchant
    \/ Renormalize

SpecMerchant == InitMerchant /\ [][NextMerchant]_vars

-----------------------------------------------------------------------------
(* classifyCategory and normalizeMerchant on their own, while                *)
(* addCategoryRule and addMerchantPattern extend the tables with rules that  *)
(* tie or overlap with the rules before them.                                *)

\* Arguments of addCategoryRule: two rules of the default priority that
\* share a haystack, and one of the priority of a built-in rule.
OverlappingCategoryRules ==
    { [keywords |-> <<L("Bakery")>>, category |-> L("Bakeries"), priority |-> Undefined],
      [keywords |-> <<L("bak"), L("cinema")>>, category |-> L("Snacks"),
       priority |-> Some(50)],
      [keywords |-> <<L("Spotify")>>, category |-> L("Music"), priority |-> Some(95)] }

\* Arguments of addMerchantPattern: /amazon/i with a category, /Bakery/ with
\* a category, /amazon/i without one.
OverlappingMerchantPatterns ==
    { [pattern |-> RegExp(<<Lit(L("amazon"))>>, TRUE),
       normalizedName |-> L("Amazon"), category |-> Some(L("Shopping"))],
      [pattern |-> RegExp(<<Lit(L("Bakery"))>>, FALSE),
       normalizedName |-> L("Bakery Co"), category |-> Some(L("Food"))],
      [pattern |-> RegExp(<<Lit(L("amazon"))>>, TRUE),
       normalizedName |-> L("AMZ"), category |-> Undefined] }

\* Arguments of classifyCategory.
ClassifyInputs ==
    { [description |-> L("Purchase"), merchant |-> L("Starbucks Carrefour")],
      [description |-> L("ATM SPOTIFY"), merchant |-> L("Unknown Merchant")],
      [description |-> L("Amazon Video Prime"), merchant |-> L("Amazon Prime")],
      [description |-> L("Purchase"), merchant |-> L("Amazon")],
      [description |-> L("Purchase"), merchant |-> L("Bakery")],
      [description |-> L("Zara Cinema"), merchant |-> L("Vox")],
      [description |-> <<>>, merchant |-> L("Laundry")] }

\* Arguments of normalizeMerchant.
NormalizeInputs ==
    { <<>>, L("ABCD12345678"), L("  Cafe   X  "), L("Amazon Prime TXN12345678"),
      L("Amazon"), L("Bakery"), L("bakery") }

InitRules ==
    /\ BANK_PATTERNS = BANK_PATTERNS_0
    /\ MERCHANT_PATTERNS = MERCHANT_PATTERNS_0
    /\ CATEGORY_RULES = CATEGORY_RULES_0
    /\ adds = 0
    /\ clock = 0
    /\ req = Idle
    /\ ret = NoCall
    /\ NoHttp

\* parseTransaction reaches classifyCategory(description, merchant) or
\* normalizeMerchant(rawMerchant).
CallRules ==
    /\ req = Idle
    /\ \/ \E c \in ClassifyInputs :
              req' = [op |-> "classifyCategory", description |-> c.description,
                      merchant |-> c.merchant]
       \/ \E x \in NormalizeInputs :
              req' = [op |-> "normalizeMerchant", rawMerchant |-> x, of |-> NoCall]
    /\ ret' = NoCall
    /\ UNCHANGED <<BANK_PATTERNS, MERCHANT_PATTERNS, CATEGORY_RULES, adds, clock, httpVars>>

\* utils.ts:191-211
ClassifyCategory ==
    /\ req.op = "classifyCategory"
    /\ ret' = [op          |-> "classifyCategory",
               description |-> req.description,
               merchant    |-> req.merchant,
               value       |-> classifyCategory(req.description, req.merchant,
                                                CATEGORY_RULES, MERCHANT_PATTERNS)]
    /\ req' = Idle
    /\ UNCHANGED <<BANK_PATTERNS, MERCHANT_PATTERNS, CATEGORY_RULES, adds, clock, httpVars>>

\* utils.ts:324-326, with a rule of OverlappingCategoryRules.
AddOverlappingCategoryRule ==
    /\ req = Idle
    /\ adds < MaxAdds
    /\ \E r \in OverlappingCategoryRules :
          /\ CATEGORY_RULES' = addCategoryRule(CATEGORY_RULES, r.keywords, r.category,
                                               r.priority)
          /\ ret' = [op |-> "addCategoryRule", keywords |-> r.keywords,
                     category |-> r.category, priority |-> r.priority]
    /\ adds' = adds + 1
    /\ UNCHANGED <<BANK_PATTERNS, MERCHANT_PATTERNS, clock, req, httpVars>>

\* utils.ts:331-333, with a rule of OverlappingMerchantPatterns.
AddOverlappingMerchantPattern ==
    /\ req = Idle
    /\ adds < MaxAdds
    /\ \E r \in OverlappingMerchantPatterns :
          /\ MERCHANT_PATTERNS' = addMerchantPattern(MERCHANT_PATTERNS, r.pattern,
                                                     r.normalizedName, r.category)
          /\ ret' = [op |-> "addMerchantPattern", pattern |-> r.pattern,
                     normalizedName |-> r.normalizedName, category |-> r.category]
    /\ adds' = adds + 1
    /\ UNCHANGED <<BANK_PATTERNS, CATEGORY_RULES, clock, req, httpVars>>

NextRules ==
    \/ CallRules
    \/ ClassifyCategory
    \/ NormalizeMerchant
    \/ AddOverlappingCategoryRule
    \/ AddOverlappingMerchantPattern

SpecRules == InitRules /\ [][NextRules]_vars

-----------------------------------------------------------------------------
(* parseTransaction after addBankPattern has registered a set that lacks a   *)
(* field.                                                                    *)

\* Arguments of addBankPattern: a set without description, a set without
\* merchant, the empty set.  Each pattern is one of the built-in patterns.
PartialBankPatternInputs ==
    { [name |-> "nodescription",
       patterns |-> << [key |-> "amount", pattern |-> AmountRe(<<L(".com")>>)],
                       [key |-> "merchant", pattern |-> LineRe(<<Ar("mn")>>)] >>],
      [name |-> "nomerchant",
       patterns |-> << [key |-> "description", pattern |-> DescriptionRe],
                       [key |-> "amount", pattern |-> AmountRe(<<L(".com")>>)] >>],
      [name |-> "empty", patterns |-> <<>>] }

\* utils.ts:338-340, with a set of PartialBankPatternInputs.
AddPartialBankPattern ==
    /\ req = Idle
    /\ adds < MaxAdds
    /\ \E b \in PartialBankPatternInputs :
          /\ BANK_PATTERNS' = addBankPattern(BANK_PATTERNS, b.name, b.patterns)
          /\ ret' = [op |-> "addBankPattern", bankName |-> b.name, patterns |-> b.patterns]
    /\ adds' = adds + 1
    /\ UNCHANGED <<MERCHANT_PATTERNS, CATEGORY_RULES, clock, req, httpVars>>

NextPartial ==
    \/ Call
    \/ ParseTransaction
    \/ AddPartialBankPattern

SpecPartial == Init /\ [][NextPartial]_vars

-----------------------------------------------------------------------------
(* The HTTP layer: routes/transactions/index.ts, which validates inside its  *)
(* handlers, and the same routes behind middleware/validation.ts and         *)
(* middleware/error-handler.ts.  One function instance runs its handlers on  *)
(* one JavaScript thread: a handler runs without interruption up to its      *)
(* first await or to its response.                                           *)

\* JSON values of a request body; Absent is a field the body does not have.
Absent  == [t |-> "undefined", str |-> <<>>, num |-> 0, items |-> <<>>]
Str(s)  == [Absent EXCEPT !.t = "string", !.str = s]
Num(n)  == [Absent EXCEPT !.t = "number", !.num = n]
Arr(xs) == [Absent EXCEPT !.t = "array", !.items = xs]

\* !x
Falsy(x) ==
    \/ x.t = "undefined"
    \/ x.t = "string" /\ x.str = <<>>
    \/ x.t = "number" /\ x.num = 0

\* new RegExp(source) throws a SyntaxError.
SyntaxError == [ok |-> FALSE]

\* The items of source from character i on, after the items compiled so far;
\* open is the stack of the groups not yet closed, n the number of groups.
\* The syntax is the one of the patterns registered in the model: characters,
\* ".", "\s", "\d", groups, and "*" or "+" after a class.
RECURSIVE Compile(_, _, _, _, _)
Compile(source, i, items, open, n) ==
    IF i > Len(source)
    THEN IF open # <<>> THEN SyntaxError                 \* Unterminated group
         ELSE [ok |-> TRUE, re |-> items]
    ELSE LET c == source[i] IN
         CASE c = "(" ->
                Compile(source, i + 1, Append(items, Open(n + 1)), <<n + 1>> \o open, n + 1)
           [] c = ")" ->
                IF open = <<>> THEN SyntaxError          \* Unmatched ')'
                ELSE Compile(source, i + 1, Append(items, Close(Head(open))), Tail(open), n)
           [] c \in {"*", "+"} ->
                IF \/ items = <<>>
                   \/ items[Len(items)].t \in {"open", "bol"}
                   \/ items[Len(items)].t = "rep" /\ items[Len(items)].unb
                THEN SyntaxError                         \* Nothing to repeat
                ELSE Compile(source, i + 1,
                             [items EXCEPT ![Len(items)] =
                                 RepUnb(items[Len(items)].cls, IF c = "*" THEN 0 ELSE 1)],
                             open, n)
           [] c = "\\" ->
                IF i = Len(source) THEN SyntaxError      \* \ at end of pattern
                ELSE Compile(source, i + 2,
                             Append(items, Rep(IF source[i + 1] = "s" THEN "space" ELSE "digit",
                                               1, 1)),
                             open, n)
           [] c = "." ->
                Compile(source, i + 1, Append(items, Rep("notnl", 1, 1)), open, n)
           [] OTHER ->
                Compile(source, i + 1, Append(items, Lit(<<c>>)), open, n)

\* A variant of new RegExp that accepts every source: what does not compile
\* becomes the empty pattern.
CompileRegExp_lenient(source, ci) ==
    LET r == Compile(source, 1, <<>>, <<>>, 0)
    IN  [ok |-> TRUE, v |-> RegExp(IF r.ok THEN r.re ELSE <<>>, ci)]

\* new RegExp(source, flags), ci telling whether flags is "i".
CompileRegExp(source, ci) ==
    LET r == Compile(source, 1, <<>>, <<>>, 0)
    IN  IF r.ok THEN [ok |-> TRUE, v |-> RegExp(r.re, ci)] ELSE SyntaxError

MaxBatchSize == 50      \* "Maximum 50 transactions per batch"

\* error-handler.ts: new AppError(message, statusCode)
AppError(message, statusCode) == [ok |-> FALSE, statusCode |-> statusCode, message |-> message]
Valid == [ok |-> TRUE]

\* A variant of schemas.batchTransaction.validate without the size check.
batchTransaction_noLimit(data) ==
    IF data.transactions.t # "array"
    THEN AppError("Transactions must be an array", 400)
    ELSE IF Len(data.transactions.items) = 0
    THEN AppError("At least one transaction is required", 400)
    ELSE IF ~Falsy(data.userId) /\ data.userId.t # "string"
    THEN AppError("UserId must be a string if provided", 400)
    ELSE Valid

\* validation.ts:34-51, schemas.batchTransaction.validate
batchTransaction(data) ==
    IF data.transactions.t # "array"
    THEN AppError("Transactions must be an array", 400)
    ELSE IF Len(data.transactions.items) = 0
    THEN AppError("At least one transaction is required", 400)
    ELSE IF Len(data.transactions.items) > MaxBatchSize
    THEN AppError("Maximum 50 transactions per batch", 400)
    ELSE IF ~Falsy(data.userId) /\ data.userId.t # "string"
    THEN AppError("UserId must be a string if provided", 400)
    ELSE Valid

\* validation.ts:53-67, schemas.categoryRule.validate
categoryRule(data) ==
    IF data.keywords.t # "array" \/ Len(data.keywords.items) = 0
    THEN AppError("Keywords must be a non-empty array", 400)
    ELSE IF Falsy(data.category) \/ data.category.t # "string"
    THEN AppError("Category is required and must be a string", 400)
    ELSE IF data.priority.t # "undefined" /\ (data.priority.t # "number" \/ data.priority.num < 0)
    THEN AppError("Priority must be a non-negative number", 400)
    ELSE Valid

\* validation.ts:69-90, schemas.merchantPattern.validate
merchantPattern(data) ==
    IF Falsy(data.pattern) \/ data.pattern.t # "string"
    THEN AppError("Pattern is required and must be a string", 400)
    ELSE IF Falsy(data.normalizedName) \/ data.normalizedName.t # "string"
    THEN AppError("Normalized name is required and must be a string", 400)
    ELSE IF ~Falsy(data.category) /\ data.category.t # "string"
    THEN AppError("Category must be a string if provided", 400)
    ELSE IF ~CompileRegExp(data.pattern.str, FALSE).ok
    THEN AppError("Invalid regex pattern", 400)
    ELSE Valid

\* validation.ts:104-126, validateRequest(schemaName) on a body: the error it
\* hands to next(error), or Valid when it calls next().
validateRequest(schemaName, body) ==
    CASE schemaName = "batchTransaction" ->
            IF body.transactions.t = "undefined"
            THEN AppError("Missing required fields: transactions", 400)
            ELSE batchTransaction(body)
      [] schemaName = "categoryRule" ->
            IF body.keywords.t = "undefined" \/ body.category.t = "undefined"
            THEN AppError("Missing required fields", 400)
            ELSE categoryRule(body)
      [] schemaName = "merchantPattern" ->
            IF body.pattern.t = "undefined" \/ body.normalizedName.t = "undefined"
            THEN AppError("Missing required fields", 400)
            ELSE merchantPattern(body)

\* The two routers of the repository.
Inline     == "routes/transactions/index.ts"
Middleware == "part_000"

\* parseTransaction(transaction) up to the end of its loop over the pattern
\* sets.  rawText.trim() is a TypeError for an item that is no string.
DetectItem(transaction, registry) ==
    IF transaction.t = "string" THEN DetectBank(transaction.str, registry)
    ELSE [parsedData |-> [EmptyParsed EXCEPT !.threw = TRUE], detectedBank |-> "generic"]

\* One turn of the loop over the batch: parseTransaction(transaction) inside
\* try/catch, best being the winner of its loop over the pattern sets.
\* seen is not part of the response: it records the lengths of the rule
\* tables the call read.
ParseItem(transaction, best, merchantRules, categoryRules, today) ==
    [success  |-> ~best.parsedData.threw,
     data     |-> BuildTransaction(transaction.str, best, merchantRules, categoryRules, today),
     original |-> transaction,
     seen     |-> [merchants |-> Len(merchantRules), categories |-> Len(categoryRules)]]

\* A variant of the loop without the try/catch: the first exception ends it.
ParseItems_abortOnThrow(transactions, bests, first, last, merchantRules, categoryRules, today) ==
    LET bad == {k \in first..last : bests[k].parsedData.threw}
        end == IF bad = {} THEN last ELSE Min(bad)
    IN  [k \in 1..(end - first + 1) |->
            ParseItem(transactions[first + k - 1], bests[first + k - 1], merchantRules,
                      categoryRules, today)]

\* The results pushed by the turns first..last of the loop
\* for (const transaction of transactions).
ParseItems(transactions, bests, first, last, merchantRules, categoryRules, today) ==
    [k \in 1..(last - first + 1) |->
        ParseItem(transactions[first + k - 1], bests[first + k - 1], merchantRules,
                  categoryRules, today)]

\* results.filter(r => r.success)
RECURSIVE Successful(_)
Successful(results) ==
    IF results = <<>> THEN <<>>
    ELSE IF Head(results).success THEN <<Head(results)>> \o Successful(Tail(results))
         ELSE Successful(Tail(results))

\* The summary of a batch response.
Summary(transactions, results) ==
    [total      |-> Len(transactions),
     successful |-> Len(Successful(results)),
     failed     |-> Len(transactions) - Len(Successful(results))]

\* The number of requests received so far; a request is known by its number.
Received == Len(responses) + Cardinality(DOMAIN pending)

\* res.status(status).json(payload) ends the request id.  The response is
\* kept with the request it answers.
Respond(id, status, payload) ==
    /\ responses' = Append(responses,
                           [id |-> id, route |-> pending[id].route,
                            body |-> pending[id].body, status |-> status,
                            payload |-> payload])
    /\ pending' = [i \in DOMAIN pending \ {id} |-> pending[i]]

Failure(error) == [success |-> FALSE, error |-> error]

\* The documents of a batch write: one per successful result.
Documents(id, userId, results) ==
    [k \in 1..Len(Successful(results)) |->
        [request |-> id, userId |-> userId, data |-> Successful(results)[k].data]]

\* Whether the handler of a batch awaits Firestore after its loop.
Stores(router, userId, results) ==
    IF router = Inline THEN ~Falsy(userId)
    ELSE ~Falsy(userId) /\ Successful(results) # <<>>

\* The check a router makes before the loop of a batch: Valid, or the status
\* and error of its response.
CheckBatch(router, body) ==
    IF router = Middleware THEN validateRequest("batchTransaction", body)
    ELSE IF Falsy(body.transactions) \/ body.transactions.t # "array"
    THEN AppError("Invalid input", 400)
    ELSE IF Len(body.transactions.items) > MaxBatchSize
    THEN AppError("Batch too large", 400)
    ELSE Valid

\* The check a router makes before it adds a category rule.
CheckCategories(router, body) ==
    IF router = Middleware THEN validateRequest("categoryRule", body)
    ELSE IF Falsy(body.keywords) \/ body.keywords.t # "array" \/ Falsy(body.category)
    THEN AppError("Invalid input", 400)
    ELSE Valid

\* The check a router makes before it compiles a merchant pattern.
CheckMerchants(router, body) ==
    IF router = Middleware THEN validateRequest("merchantPattern", body)
    ELSE IF Falsy(body.pattern) \/ Falsy(body.normalizedName)
    THEN AppError("Invalid input", 400)
    ELSE Valid

\* sendCreated answers 201, res.json 200.
Created(router) == IF router = Middleware THEN 201 ELSE 200

\* The payload of a batch response; results is empty for an error response.
BatchPayload(transactions, results) ==
    [success |-> TRUE, results |-> results, summary |-> Summary(transactions, results)]

\* The strings of a JSON array of strings.
Strings(xs) == [k \in 1..Len(xs.items) |-> xs.items[k].str]

\* A JSON string or nothing, as an optional text.
Optional(x) == IF x.t = "string" THEN Some(x.str) ELSE Undefined

MaxRequests == 2    \* requests an instance receives

T1 == Str(L("Netflix 4 SAR"))
T2 == Str(L("cinema"))
N1 == Num(42)
U1 == Str(L("u1"))

\* n items, all but the one before the last no strings.
Big(n) == [k \in 1..n |-> IF k = n - 1 THEN T1 ELSE N1]

Routes == {"POST /parse/batch", "POST /categories", "POST /merchants"}

BatchBodies ==
    { [transactions |-> Arr(<<N1, T1>>), userId |-> U1],
      [transactions |-> Arr(<<T1, T2>>), userId |-> Absent],
      [transactions |-> Arr(Big(MaxBatchSize)), userId |-> U1],
      [transactions |-> Arr(Big(MaxBatchSize + 1)), userId |-> U1] }

CategoryBodies ==
    { [keywords |-> Arr(<<Str(L("cinema"))>>), category |-> Str(L("Fun")), priority |-> Absent],
      [keywords |-> Arr(<<>>), category |-> Str(L("Empty")), priority |-> Absent] }

\* Pattern strings that new RegExp rejects.
Uncompilable == {L("(uber"), L("*cafe")}

MerchantBodies ==
    { [pattern |-> Str(p), normalizedName |-> Str(L("Netflix Inc")),
       category |-> Str(L("Streaming"))] : p \in {L("(net)flix.*")} \cup Uncompilable }

Bodies(route) ==
    CASE route = "POST /parse/batch" -> BatchBodies
      [] route = "POST /categories"  -> CategoryBodies
      [] route = "POST /merchants"   -> MerchantBodies

tables == <<BANK_PATTERNS, MERCHANT_PATTERNS, CATEGORY_RULES>>

InitHttp ==
    /\ BANK_PATTERNS = BANK_PATTERNS_0
    /\ MERCHANT_PATTERNS = MERCHANT_PATTERNS_0
    /\ CATEGORY_RULES = CATEGORY_RULES_0
    /\ adds = 0
    /\ clock = 0
    /\ req = Idle
    /\ ret = NoCall
    /\ app \in {Inline, Middleware}
    /\ pending = <<>>
    /\ responses = <<>>
    /\ firestore = <<>>

\* express.json() has read the body of a request: its handler is to run.
Receive ==
    /\ Received < MaxRequests
    /\ \E route \in Routes :
         \E body \in Bodies(route) :
            pending' = pending @@ ((Received + 1) :>
                          [route |-> route, body |-> body, results |-> <<>>,
                           awaiting |-> FALSE])
    /\ UNCHANGED <<tables, adds, clock, req, ret, app, responses, firestore>>

\* The end of the synchronous part of the batch handler, after its loop:
\* await batch.commit() when the results are to be stored, the response otherwise.
FinishBatch(id, results) ==
    IF Stores(app, pending[id].body.userId, results)
    THEN /\ pending' = [pending EXCEPT ![id].results = results, ![id].awaiting = TRUE]
         /\ UNCHANGED responses
    ELSE Respond(id, 200, BatchPayload(pending[id].body.transactions.items, results))

\* A variant of the batch handler that yields to other requests after each
\* turn of its loop.
HandleBatch_yielding ==
    \E id \in DOMAIN pending :
        /\ pending[id].route = "POST /parse/batch"
        /\ ~pending[id].awaiting
        /\ \E check \in {CheckBatch(app, pending[id].body)} :
              IF ~check.ok
              THEN Respond(id, check.statusCode, Failure(check.message))
              ELSE IF Len(pending[id].results) < Len(pending[id].body.transactions.items)
              THEN /\ \E bests \in {[k \in 1..Len(pending[id].body.transactions.items) |->
                                         DetectItem(pending[id].body.transactions.items[k],
                                                    BANK_PATTERNS)]} :
                        \E more \in {ParseItems(pending[id].body.transactions.items, bests,
                                                Len(pending[id].results) + 1,
                                                Len(pending[id].results) + 1,
                                                MERCHANT_PATTERNS, CATEGORY_RULES,
                                                Today(clock))} :
                           pending' = [pending EXCEPT ![id].results = @ \o more]
                   /\ UNCHANGED responses
              ELSE FinishBatch(id, pending[id].results)
        /\ UNCHANGED <<tables, adds, clock, req, ret, app, firestore>>

\* POST /parse/batch up to its first await: the check of the body, the loop
\* over all items, and the response unless the results are to be stored.
HandleBatch ==
    \E id \in DOMAIN pending :
        /\ pending[id].route = "POST /parse/batch"
        /\ ~pending[id].awaiting
        /\ \E check \in {CheckBatch(app, pending[id].body)} :
              IF ~check.ok
              THEN Respond(id, check.statusCode, Failure(check.message))
              ELSE \E bests \in {[k \in 1..Len(pending[id].body.transactions.items) |->
                                       DetectItem(pending[id].body.transactions.items[k],
                                                  BANK_PATTERNS)]} :
                      \E results \in {ParseItems(pending[id].body.transactions.items, bests,
                                                 1, Len(pending[id].body.transactions.items),
                                                 MERCHANT_PATTERNS, CATEGORY_RULES,
                                                 Today(clock))} :
                         FinishBatch(id, results)
        /\ UNCHANGED <<tables, adds, clock, req, ret, app, firestore>>

\* POST /parse/batch after await batch.commit(): the write has been committed
\* as a whole or has failed.  index.ts logs the failure and answers with the
\* results; behind asyncHandler the failure goes to errorHandler.
CommitBatch ==
    \E id \in DOMAIN pending, committed \in BOOLEAN :
        /\ pending[id].awaiting
        /\ firestore' = IF committed
                        THEN firestore \o Documents(id, pending[id].body.userId.str,
                                                    pending[id].results)
                        ELSE firestore
        /\ IF committed \/ app = Inline
           THEN Respond(id, 200, BatchPayload(pending[id].body.transactions.items,
                                              pending[id].results))
           ELSE Respond(id, 500, Failure("Internal server error"))
        /\ UNCHANGED <<tables, adds, clock, req, ret, app>>

\* POST /categories
HandleCategories ==
    \E id \in DOMAIN pending :
        /\ pending[id].route = "POST /categories"
        /\ \E check \in {CheckCategories(app, pending[id].body)} :
              IF ~check.ok
              THEN /\ Respond(id, check.statusCode, Failure(check.message))
                   /\ UNCHANGED <<CATEGORY_RULES, adds>>
              ELSE /\ CATEGORY_RULES' =
                          Append(CATEGORY_RULES,
                                 [keywords |-> Strings(pending[id].body.keywords),
                                  category |-> pending[id].body.category.str,
                                  priority |-> IF pending[id].body.priority.t = "undefined"
                                               THEN DefaultPriority
                                               ELSE pending[id].body.priority.num])
                   /\ adds' = adds + 1
                   /\ Respond(id, Created(app), [success |-> TRUE])
        /\ UNCHANGED <<BANK_PATTERNS, MERCHANT_PATTERNS, clock, req, ret, app, firestore>>

\* POST /merchants
HandleMerchants ==
    \E id \in DOMAIN pending :
        /\ pending[id].route = "POST /merchants"
        /\ \E check \in {CheckMerchants(app, pending[id].body)} :
              IF ~check.ok
              THEN /\ Respond(id, check.statusCode, Failure(check.message))
                   /\ UNCHANGED <<MERCHANT_PATTERNS, adds>>
              ELSE \E regex \in {CompileRegExp(pending[id].body.pattern.str, TRUE)} :
                      IF ~regex.ok
                      THEN /\ Respond(id, 500, Failure("Failed to add merchant pattern"))
                           /\ UNCHANGED <<MERCHANT_PATTERNS, adds>>
                      ELSE /\ MERCHANT_PATTERNS' =
                                  Append(MERCHANT_PATTERNS,
                                         [pattern |-> regex.v,
                                          normalizedName |-> pending[id].body.normalizedName.str,
                                          category |-> Optional(pending[id].body.category)])
                           /\ adds' = adds + 1
                           /\ Respond(id, Created(app), [success |-> TRUE])
        /\ UNCHANGED <<BANK_PATTERNS, CATEGORY_RULES, clock, req, ret, app, firestore>>

NextHttp ==
    \/ Receive
    \/ HandleBatch
    \/ CommitBatch
    \/ HandleCategories
    \/ HandleMerchants

SpecHttp == InitHttp /\ [][NextHttp]_vars

-----------------------------------------------------------------------------
(* Properties of parseTransaction with the tables as shipped (SpecBuiltin) *)

Returned == ret.op = "parseTransaction"

RecordFields ==
    {"threw", "description", "amount", "currency", "merchant", "accountMasked",
     "date", "category", "recurrence", "rawText", "bankFormat"}

\* C1: with the built-in tables parseTransaction raises no exception and
\* returns a record with every field, for every input text, the empty and
\* the whitespace-only text and texts no pattern matches included.
C1_NeverThrows ==
    Returned =>
        /\ ~ret.value.threw
        /\ DOMAIN ret.value = RecordFields
        /\ ret.value.rawText = ret.rawText
        /\ ret.value.merchant # <<>>

\* The empty text was parsed and gave the defaults.
C1_Witness ==
    /\ Returned
    /\ ret.rawText = <<>>
    /\ ~ret.value.threw
    /\ ret.value.description = <<>>
    /\ ret.value.merchant = UnknownMerchant
    /\ ret.value.accountMasked = L("N/A")

\* C2: the documented six-line Spotify notification gives amount 21.99,
\* currency SAR, merchant Spotify, category Subscriptions, accountMasked
\* "3180* / 0165*", date 2025-06-08 and a monthly recurrence of confidence 0.8.
C2_SpotifyExample ==
    (Returned /\ ret.rawText = SpotifyText) =>
        /\ ~ret.value.threw
        /\ ret.value.amount = [nan |-> FALSE, m |-> 2199, e |-> 2]
        /\ ret.value.currency = L("SAR")
        /\ ret.value.merchant = L("Spotify")
        /\ ret.value.category = L("Subscriptions")
        /\ ret.value.accountMasked = L("3180* / 0165*")
        /\ ret.value.date = L("2025-06-08")
        /\ ret.value.recurrence.isRecurring
        /\ ret.value.recurrence.period = "monthly"
        /\ ret.value.recurrence.confidence = [def |-> TRUE, tenths |-> 8]

\* The documented notification was parsed, by the generic set.
C2_Witness ==
    /\ Returned
    /\ ret.rawText = SpotifyText
    /\ ret.value.bankFormat = "generic"
    /\ ret.parsedData.date = Some(L("08-06-25"))

\* YYYY-MM-DD: four digits, two digits, two digits, joined by "-".
IsISODate(s) ==
    /\ Len(s) = 10
    /\ \A i \in {1, 2, 3, 4, 6, 7, 9, 10} : s[i] \in Digit
    /\ s[5] = "-"
    /\ s[8] = "-"

\* C5: the date of every returned record has the shape YYYY-MM-DD, whichever
\* pattern set wins and whatever raw date it captured.
C5_DateIsISO ==
    (Returned /\ ~ret.value.threw) => IsISODate(ret.value.date)

\* C8: the amount of every returned record is a non-negative number, and
\* exactly 0 when no amount was captured or the capture holds no digit.
C8_AmountNonNegative ==
    (Returned /\ ~ret.value.threw) =>
        /\ ~ret.value.amount.nan
        /\ ret.value.amount.m >= 0
        /\ (~ret.parsedData.amount.def \/ \A i \in DOMAIN ret.parsedData.amount.v :
                                              ret.parsedData.amount.v[i] \notin Digit)
              => ret.value.amount = [nan |-> FALSE, m |-> 0, e |-> 0]

-----------------------------------------------------------------------------
(* Properties of normalizeDate (SpecDate) *)

\* DD-MM-YY: two digits, two digits, two digits, joined by "-".
IsDDMMYY(s) ==
    /\ Len(s) = 8
    /\ \A i \in {1, 2, 4, 5, 7, 8} : s[i] \in Digit
    /\ s[3] = "-"
    /\ s[6] = "-"

\* DD/MM/YYYY: two digits, two digits, four digits, joined by "/".
IsDDMMYYYY(s) ==
    /\ Len(s) = 10
    /\ \A i \in {1, 2, 4, 5, 7, 8, 9, 10} : s[i] \in Digit
    /\ s[3] = "/"
    /\ s[6] = "/"

DateNormalized == ret.op = "normalizeDate"

\* C6: normalizeDate maps DD-MM-YY to 20YY-MM-DD and DD/MM/YYYY to
\* YYYY-MM-DD, and returns the current calendar date when there is no raw date.
C6_NormalizeDate ==
    DateNormalized =>
        LET d == ret.dateStr.v
        IN  /\ (ret.dateStr.def /\ IsDDMMYY(d)) =>
                   ret.value = L("20") \o SubSeq(d, 7, 8) \o L("-") \o SubSeq(d, 4, 5)
                               \o L("-") \o SubSeq(d, 1, 2)
            /\ (ret.dateStr.def /\ IsDDMMYYYY(d)) =>
                   ret.value = SubSeq(d, 7, 10) \o L("-") \o SubSeq(d, 4, 5)
                               \o L("-") \o SubSeq(d, 1, 2)
            /\ ~ret.dateStr.def => ret.value = ret.today

\* 08/06/2025 was normalized to 2025-06-08.
C6_Witness ==
    /\ DateNormalized
    /\ ret.dateStr = Some(L("08/06/2025"))
    /\ ret.value = L("2025-06-08")

\* C7: normalizeDate returns unchanged every raw date that is neither
\* DD-MM-YY nor DD/MM/YYYY: a four-digit year after "-", a single-digit day
\* or month, a one-digit year.
C7_OtherShapesUnchanged ==
    (DateNormalized /\ ret.dateStr.def /\ ret.dateStr.v # <<>>
       /\ ~IsDDMMYY(ret.dateStr.v) /\ ~IsDDMMYYYY(ret.dateStr.v))
        => ret.value = ret.dateStr.v

-----------------------------------------------------------------------------
(* Properties of the heuristic detectRecurrence (SpecHeuristic) *)

RecurrenceDetected == ret.op = "detectRecurrence"

\* The merchant or the description holds one of the keywords, in any case.
Mentions(keywords) ==
    \E k \in 1..Len(keywords) :
        \/ includes(toLowerCase(ret.merchant), toLowerCase(keywords[k]))
        \/ includes(toLowerCase(ret.description), toLowerCase(keywords[k]))

\* C10: a subscription keyword in the merchant or the description gives
\* monthly with confidence 0.8; otherwise a utility keyword gives monthly with
\* confidence 0.7; otherwise not recurring.  With both present the result is
\* the subscription one.
C10_Heuristic ==
    RecurrenceDetected =>
        ret.value =
            IF Mentions(subscriptionKeywords)
            THEN [isRecurring |-> TRUE, period |-> "monthly",
                  confidence |-> [def |-> TRUE, tenths |-> 8]]
            ELSE IF Mentions(utilityKeywords)
                 THEN [isRecurring |-> TRUE, period |-> "monthly",
                       confidence |-> [def |-> TRUE, tenths |-> 7]]
                 ELSE [isRecurring |-> FALSE, period |-> "undefined",
                       confidence |-> [def |-> FALSE, tenths |-> 0]]

\* A utility merchant with a subscription description, in capitals, gave 0.8.
C10_Witness ==
    /\ RecurrenceDetected
    /\ ret.merchant = L("STC Internet")
    /\ ret.description = L("Internet SUBSCRIPTION")
    /\ ret.value.isRecurring
    /\ ret.value.confidence = [def |-> TRUE, tenths |-> 8]

-----------------------------------------------------------------------------
(* Properties of detectRecurrenceWithHistory (SpecHistory) *)

HistoryDetected == ret.op = "detectRecurrenceWithHistory"

\* The result the rule gives for day gaps, in the words of the rule: not
\* recurring unless the population standard deviation is below 0.2 times the
\* mean; then by the range of the mean.
RuleResult(gaps) ==
    LET n    == Len(gaps)
        S    == Sum(gaps)
        dev2 == n * Sum([i \in 1..n |-> gaps[i] * gaps[i]]) - S * S
        no   == [isRecurring |-> FALSE, period |-> "undefined",
                 confidence |-> [def |-> TRUE, tenths |-> 0]]
        yes(period, tenths) ==
                [isRecurring |-> TRUE, period |-> period,
                 confidence |-> [def |-> TRUE, tenths |-> tenths]]
    IN  IF ~(25 * dev2 < S * S) THEN no
        ELSE IF 25 * n <= S /\ S <= 35 * n THEN yes("monthly", 9)
        ELSE IF 6 * n <= S /\ S <= 8 * n THEN yes("weekly", 8)
        ELSE IF 360 * n <= S /\ S <= 370 * n THEN yes("yearly", 8)
        ELSE IF 4 * n <= 5 * S /\ 5 * S <= 6 * n THEN yes("daily", 7)
        ELSE no

\* C9: with at least two similar history transactions the result is the one
\* the rule gives for the chronological day gaps; gaps of 30, 31, 29 days give
\* monthly with confidence 0.9 and gaps of 10, 40, 5 days give not recurring
\* with confidence 0.
C9_HistoryRule ==
    (HistoryDetected /\ Len(ret.gaps) >= 1) =>
        /\ ret.value = RuleResult(ret.gaps)
        /\ ret.gaps = <<30, 31, 29>> =>
              ret.value = [isRecurring |-> TRUE, period |-> "monthly",
                           confidence |-> [def |-> TRUE, tenths |-> 9]]
        /\ ret.gaps = <<10, 40, 5>> => ~ret.value.isRecurring

-----------------------------------------------------------------------------
(* Properties of parseTransaction while the tables change (Spec) *)

\* The call before this one parsed the same text, with no add in between.
Repeated == Returned /\ ret.prev.op = "parseTransaction"

Haystack == toLowerCase(ret.value.description \o <<SP>> \o ret.value.merchant)

\* The category rules with a keyword in the haystack.
Firing ==
    { i \in 1..Len(CATEGORY_RULES) :
        \E k \in 1..Len(CATEGORY_RULES[i].keywords) :
            includes(Haystack, toLowerCase(CATEGORY_RULES[i].keywords[k])) }

\* C4: when category rules fire, the category returned is that of a firing
\* rule of the highest priority among them, wherever in the table the rules
\* stand: a rule of lower priority never wins over one of higher priority.
C4_PriorityWins ==
    (Returned /\ ~ret.value.threw /\ Firing # {}) =>
        \E a \in Firing :
            /\ ret.value.category = CATEGORY_RULES[a].category
            /\ \A b \in Firing : CATEGORY_RULES[b].priority <= CATEGORY_RULES[a].priority

\* A rule added after a firing built-in rule of lower priority won.
C4_Witness ==
    /\ Returned
    /\ \E a, b \in Firing :
          /\ b < a
          /\ a > Len(CATEGORY_RULES_0)
          /\ CATEGORY_RULES[b].priority < CATEGORY_RULES[a].priority
          /\ CATEGORY_RULES[b].category # CATEGORY_RULES[a].category
          /\ ret.value.category = CATEGORY_RULES[a].category


-----------------------------------------------------------------------------
(* Properties of the HTTP layer (SpecHttp) *)

IsBatch(r) == r.route = "POST /parse/batch"

\* The last response sent.
LastResponse(rs) == rs[Len(rs)]

TooLarge(r) ==
    /\ IsBatch(r)
    /\ r.body.transactions.t = "array"
    /\ Len(r.body.transactions.items) > MaxBatchSize

\* C11: every step a handler takes for a POST /parse/batch request with more
\* than 50 transactions is its rejection: the request is answered with an
\* error status, no parseTransaction call has been made for it, nothing is
\* written to Firestore and no rule table changes.
C11_OversizedBatchRejected ==
    [][\A id \in DOMAIN pending :
          (/\ TooLarge(pending[id])
           /\ (id \notin DOMAIN pending' \/ pending'[id] # pending[id]))
          => /\ id \notin DOMAIN pending'
             /\ pending[id].results = <<>>
             /\ LastResponse(responses').id = id
             /\ LastResponse(responses').status = 400
             /\ ~LastResponse(responses').payload.success
             /\ UNCHANGED <<tables, firestore>>]_vars

\* A batch of 51 items has been answered with status 400.
C11_Witness ==
    \E k \in 1..Len(responses) :
        /\ TooLarge(responses[k])
        /\ Len(responses[k].body.transactions.items) = MaxBatchSize + 1
        /\ responses[k].status = 400

\* One result per item, in input order: a failure carrying the item for an
\* item that is no string, the parsed record of the item for a string.
Isolated(transactions, results) ==
    /\ Len(results) = Len(transactions)
    /\ \A i \in 1..Len(transactions) :
          /\ results[i].original = transactions[i]
          /\ results[i].success = (transactions[i].t = "string")
          /\ results[i].success => results[i].data.rawText = transactions[i].str

\* C12: the results of an accepted batch of n items are n entries in input
\* order; an item whose parseTransaction call throws has a failure entry
\* carrying it, the items after it are parsed all the same, and the summary
\* has total = n = successful + failed.
C12_BatchIsolation ==
    /\ \A id \in DOMAIN pending :
          pending[id].awaiting =>
              Isolated(pending[id].body.transactions.items, pending[id].results)
    /\ \A k \in 1..Len(responses) :
          (IsBatch(responses[k]) /\ responses[k].status = 200) =>
              /\ Isolated(responses[k].body.transactions.items,
                          responses[k].payload.results)
              /\ responses[k].payload.summary.total
                     = Len(responses[k].body.transactions.items)
              /\ responses[k].payload.summary.total
                     = responses[k].payload.summary.successful
                       + responses[k].payload.summary.failed
              /\ responses[k].payload.summary.successful
                     = Cardinality({i \in 1..Len(responses[k].payload.results) :
                                       responses[k].payload.results[i].success})

\* A batch has been answered whose first item failed and whose second item
\* was parsed.
C12_Witness ==
    \E k \in 1..Len(responses) :
        /\ IsBatch(responses[k])
        /\ responses[k].status = 200
        /\ Len(responses[k].payload.results) = 2
        /\ ~responses[k].payload.results[1].success
        /\ responses[k].payload.results[2].success
        /\ responses[k].payload.summary = [total |-> 2, successful |-> 1, failed |-> 1]

Rejected(r) ==
    /\ r.route = "POST /merchants"
    /\ r.body.pattern.str \in Uncompilable

\* C13: the handler of a POST /merchants request whose pattern does not
\* compile answers with an error status and leaves MERCHANT_PATTERNS, and the
\* other tables parseTransaction reads, as they were.
C13_UncompilablePatternRejected ==
    [][\A id \in DOMAIN pending :
          (Rejected(pending[id]) /\ id \notin DOMAIN pending')
          => /\ LastResponse(responses').id = id
             /\ LastResponse(responses').status >= 400
             /\ ~LastResponse(responses').payload.success
             /\ UNCHANGED tables]_vars

\* A pattern that does not compile has been rejected, and a batch received
\* later has been parsed.
C13_Witness ==
    \E j, k \in 1..Len(responses) :
        /\ j < k
        /\ Rejected(responses[j])
        /\ responses[j].status >= 400
        /\ MERCHANT_PATTERNS = MERCHANT_PATTERNS_0
        /\ IsBatch(responses[k])
        /\ responses[k].status = 200
        /\ \E i \in 1..Len(responses[k].payload.results) :
              responses[k].payload.results[i].success

\* All parseTransaction calls of one batch read the same rule tables, and
\* these are the tables as shipped followed by whole rules added since.
OneTableState(results) ==
    \A i \in 1..Len(results) :
        /\ results[i].seen = results[1].seen
        /\ results[i].seen.merchants \in Len(MERCHANT_PATTERNS_0)..Len(MERCHANT_PATTERNS)
        /\ results[i].seen.categories \in Len(CATEGORY_RULES_0)..Len(CATEGORY_RULES)

\* C16: with requests handled concurrently, all items of one batch are parsed
\* with the same rule tables, each the result of a whole number of completed
\* add operations: no add takes effect between the first and the last item.
C16_BatchReadsOneTableState ==
    /\ \A id \in DOMAIN pending : OneTableState(pending[id].results)
    /\ \A k \in 1..Len(responses) :
          (IsBatch(responses[k]) /\ responses[k].status = 200) =>
              OneTableState(responses[k].payload.results)

\* A rule was added while a batch of two items was being handled: the add
\* request was received after the batch and answered before it.
C16_Witness ==
    \E j, k \in 1..Len(responses) :
        /\ j < k
        /\ responses[j].id > responses[k].id
        /\ responses[j].route \in {"POST /categories", "POST /merchants"}
        /\ responses[j].status < 400
        /\ IsBatch(responses[k])
        /\ responses[k].status = 200
        /\ Len(responses[k].payload.results) = 2


-----------------------------------------------------------------------------
(* Properties of normalizeMerchant (SpecMerchant) *)

\* The normalized names of the built-in merchant rules.
BuiltinNames == {MERCHANT_PATTERNS_0[i].normalizedName : i \in 1..Len(MERCHANT_PATTERNS_0)}

\* C14: with the built-in merchant rules, normalizeMerchant applied to a
\* result of normalizeMerchant returns it unchanged, and it returns each
\* built-in normalized name and "Unknown Merchant" unchanged.
C14_NormalizeMerchantIdempotent ==
    ret.op = "normalizeMerchant" =>
        /\ ret.of # NoCall => ret.value = ret.of.value
        /\ ret.rawMerchant \in BuiltinNames \cup {UnknownMerchant}
              => ret.value = ret.rawMerchant

\* normalizeMerchant has been applied to a result of its own that differs
\* from the string the first call was given.
C14_Witness ==
    /\ ret.op = "normalizeMerchant"
    /\ ret.of # NoCall
    /\ ret.of.rawMerchant = L("Spotify TXN12345678 AB")
    /\ ret.rawMerchant = L("Spotify")
    /\ ret.value = L("Spotify")


-----------------------------------------------------------------------------
(* Properties of the selection of the pattern set (Spec) *)

\* The result of tryParseWithPattern on the text of the completed call, for
\* each pattern set in registration order.
Scores == [i \in 1..Len(BANK_PATTERNS) |->
              tryParseWithPattern(ret.rawText, BANK_PATTERNS[i].patterns)]

\* Set i has the maximum confidence of all sets.
IsMax(scores, i) ==
    \A j \in 1..Len(scores) : scores[j].num * scores[i].den <= scores[i].num * scores[j].den

\* C15: the bankFormat of a returned record is the identifier of the first
\* pattern set, in registration order, whose confidence is the maximum over
\* all registered sets, and "generic" when no set has a confidence above zero.
C15_FirstMaximumWins ==
    (Returned /\ ~ret.value.threw) =>
        \A scores \in {Scores} :
            IF \E i \in 1..Len(scores) : scores[i].num > 0
            THEN \E i \in 1..Len(scores) :
                    /\ IsMax(scores, i)
                    /\ \A j \in 1..(i - 1) : ~IsMax(scores, j)
                    /\ ret.value.bankFormat = BANK_PATTERNS[i].name
            ELSE ret.value.bankFormat = "generic"

\* A record has been returned for a text on which a later set has the same,
\* maximum, confidence as the set named by bankFormat.
C15_Witness ==
    /\ Returned
    /\ ~ret.value.threw
    /\ \E scores \in {Scores} :
          \E i, j \in 1..Len(scores) :
              /\ i < j
              /\ IsMax(scores, i)
              /\ IsMax(scores, j)
              /\ ret.value.bankFormat = BANK_PATTERNS[i].name


-----------------------------------------------------------------------------
(* Properties of the registration operations (Spec) *)

\* C17: addBankPattern never alters a registered pattern set: every
\* identifier of the registry keeps its set and its place in the iteration
\* order, the identifier the call names included.
C17_RegisteredSetImmutable ==
    [][\A i \in 1..Len(BANK_PATTERNS) :
          /\ i <= Len(BANK_PATTERNS')
          /\ BANK_PATTERNS'[i] = BANK_PATTERNS[i]]_vars

\* table, with one rule added at its end.
Appended(table, new) ==
    /\ Len(new) = Len(table) + 1
    /\ SubSeq(new, 1, Len(table)) = table

-----------------------------------------------------------------------------
(* Properties of the confidence (SpecBuiltin) *)

\* The number of fields of a pattern set whose pattern matches the text, a
\* matching amount counted as two.
MatchedFields(text, patterns) ==
    Sum([k \in 1..Len(patterns) |->
            IF test(patterns[k].pattern, text)
            THEN (IF patterns[k].key = "amount" THEN 2 ELSE 1)
            ELSE 0])

\* C19: for every registered pattern set, the numerator of the confidence on
\* the text of the call is the number of the fields the set defines whose
\* pattern matches the text, a matching amount counted as two, and the
\* denominator is the number of fields the set defines.
C19_ConfidenceCountsDefinedFields ==
    Returned =>
        \A i \in 1..Len(BANK_PATTERNS) :
            \A result \in {tryParseWithPattern(ret.rawText, BANK_PATTERNS[i].patterns)} :
                ~result.threw =>
                    /\ result.num = MatchedFields(ret.rawText, BANK_PATTERNS[i].patterns)
                    /\ result.den = Len(BANK_PATTERNS[i].patterns)


-----------------------------------------------------------------------------
(* Properties of the intervals of detectRecurrenceWithHistory (SpecHistory) *)

\* The dates of the history transactions of the completed call.
HistoryDates ==
    {ret.historicalTransactions[i].date : i \in 1..Len(ret.historicalTransactions)}

\* C20: the day gaps of a call with at least two similar transactions are the
\* gaps between consecutive dates in ascending chronological order: none is
\* negative, and they sum to the days between the earliest and the latest
\* similar transaction.
C20_GapsChronological ==
    (HistoryDetected /\ Len(ret.historicalTransactions) >= 2) =>
        /\ ret.intervals = ret.gaps
        /\ \A i \in 1..Len(ret.intervals) : ret.intervals[i] >= 0
        /\ Sum(ret.intervals) = Max(HistoryDates) - Min(HistoryDates)


-----------------------------------------------------------------------------
(* Properties of the similarity filter of detectRecurrenceWithHistory        *)
(* (SpecSimilar)                                                             *)

\* The history transactions of the same merchant string whose amount is
\* within a tenth of the current amount of it.
WithinTolerance ==
    { i \in 1..Len(ret.historicalTransactions) :
        LET tx == ret.historicalTransactions[i]
            c  == ret.currentTransaction
        IN  /\ tx.merchant = c.merchant
            /\ tx.amount * 10 >= c.amount * 9 /\ tx.amount * 10 <= c.amount * 11
            /\ c.amount >= 0 }

\* C21: the similar transactions of a completed call are the history
\* transactions of the identical merchant string whose amount differs from
\* the current amount by at most a tenth of the current amount, the current
\* transaction not among them unless the history holds it; with fewer than
\* two of them the result is not recurring with confidence 0, whatever the
\* dates are.
C21_SimilarityFilter ==
    HistoryDetected =>
        /\ Len(ret.similar) = Cardinality(WithinTolerance)
        /\ \A i \in 1..Len(ret.historicalTransactions) :
              (i \in WithinTolerance) <=>
                  \E k \in 1..Len(ret.similar) : ret.similar[k] = ret.historicalTransactions[i]
        /\ Cardinality(WithinTolerance) < 2 =>
              /\ ret.value.isRecurring = FALSE
              /\ ret.value.confidence = Tenths(0)
              /\ ret.value.period = "undefined"

\* A call in which one transaction at the edge of the tolerance is similar,
\* one beyond it and one of another merchant string are not, and the single
\* similar one does not make the current transaction recurring.
C21_Witness ==
    /\ HistoryDetected
    /\ Len(ret.historicalTransactions) = 3
    /\ Cardinality(WithinTolerance) = 1
    /\ \E i, j, k \in 1..3 :
          /\ ret.historicalTransactions[i].amount = 22
          /\ i \in WithinTolerance
          /\ ret.historicalTransactions[j].amount = 23
          /\ ret.historicalTransactions[j].merchant = ret.currentTransaction.merchant
          /\ ret.historicalTransactions[k].merchant # ret.currentTransaction.merchant
          /\ ret.historicalTransactions[k].amount = 22
    /\ ~ret.value.isRecurring

-----------------------------------------------------------------------------
(* Properties of classifyCategory and normalizeMerchant while the tables     *)
(* grow (SpecRules)                                                          *)

Classified == ret.op = "classifyCategory"

\* The lowercased 'description merchant' of the completed call.
ClassifiedText == toLowerCase(ret.description \o <<SP>> \o ret.merchant)

\* The category rules one of whose keywords is in it, whatever its case.
FiringRules ==
    { i \in 1..Len(CATEGORY_RULES) :
        \E k \in 1..Len(CATEGORY_RULES[i].keywords) :
            includes(ClassifiedText, toLowerCase(CATEGORY_RULES[i].keywords[k])) }

\* The firing rules of the highest priority among the firing rules.
TopRules ==
    { i \in FiringRules :
        \A j \in FiringRules : CATEGORY_RULES[j].priority <= CATEGORY_RULES[i].priority }

\* The merchant rules with a category whose pattern matches it.
CategorisingMerchants ==
    { i \in 1..Len(MERCHANT_PATTERNS) :
        /\ Truthy(MERCHANT_PATTERNS[i].category)
        /\ test(MERCHANT_PATTERNS[i].pattern, ClassifiedText) }

\* The categories the tables hold.
TableCategories ==
    { CATEGORY_RULES[i].category : i \in 1..Len(CATEGORY_RULES) }
    \cup { MERCHANT_PATTERNS[i].category.v :
             i \in { j \in 1..Len(MERCHANT_PATTERNS) : MERCHANT_PATTERNS[j].category.def } }

\* C22: classifyCategory returns the category of a firing category rule of
\* the highest priority when a category rule fires; otherwise the category
\* of the first merchant rule, in registration order, that has a category
\* and matches the lowercased haystack; otherwise 'Other'.  The result is a
\* category of the current tables or 'Other'.
C22_ClassificationTiers ==
    Classified =>
        /\ FiringRules # {} =>
              \E i \in TopRules : ret.value = CATEGORY_RULES[i].category
        /\ (FiringRules = {} /\ CategorisingMerchants # {}) =>
              ret.value = MERCHANT_PATTERNS[Min(CategorisingMerchants)].category.v
        /\ (FiringRules = {} /\ CategorisingMerchants = {}) => ret.value = L("Other")
        /\ ret.value \in TableCategories \cup {L("Other")}

\* No category rule fired; an added merchant rule without a category matched
\* and was passed over for the added one after it that has a category.
C22_Witness ==
    /\ Classified
    /\ FiringRules = {}
    /\ \E i \in CategorisingMerchants :
          /\ i = Len(MERCHANT_PATTERNS_0) + 2
          /\ ~Truthy(MERCHANT_PATTERNS[i - 1].category)
          /\ test(MERCHANT_PATTERNS[i - 1].pattern, ClassifiedText)
          /\ ret.value = MERCHANT_PATTERNS[i].category.v
    /\ ret.value = L("Shopping")

\* C23: among the firing category rules of the highest priority,
\* classifyCategory returns the category of the one earliest in the table,
\* and the table holds the built-in rules in their order followed by the
\* added rules.
C23_TiesByRegistration ==
    Classified =>
        /\ SubSeq(CATEGORY_RULES, 1, Len(CATEGORY_RULES_0)) = CATEGORY_RULES_0
        /\ TopRules # {} => ret.value = CATEGORY_RULES[Min(TopRules)].category

\* Two added rules of the same priority fired, and the category is that of
\* the one added first, which is not that of the one added second.
C23_Witness ==
    /\ Classified
    /\ Cardinality(TopRules) = 2
    /\ Min(TopRules) > Len(CATEGORY_RULES_0)
    /\ CATEGORY_RULES[Min(TopRules)].category # CATEGORY_RULES[Max(TopRules)].category
    /\ CATEGORY_RULES[Min(TopRules)].category = L("Snacks")
    /\ ret.value = L("Snacks")

Normalized == ret.op = "normalizeMerchant"

\* The raw merchant of the completed call without its runs of 8 or more
\* uppercase letters and digits, its white space collapsed and trimmed.
Cleaned == trim(CollapseSpaces(StripCodes(ret.rawMerchant)))

\* The merchant rules whose pattern matches the cleaned string.
MatchingMerchants ==
    { i \in 1..Len(MERCHANT_PATTERNS) : test(MERCHANT_PATTERNS[i].pattern, Cleaned) }

\* C24: normalizeMerchant returns 'Unknown Merchant' for the empty raw
\* merchant; otherwise the normalizedName of the earliest-registered rule
\* that matches the cleaned string; with no matching rule the cleaned
\* string, or the raw merchant when the cleaned string is empty.
C24_EarliestRuleNames ==
    Normalized =>
        IF ret.rawMerchant = <<>> THEN ret.value = UnknownMerchant
        ELSE IF MatchingMerchants # {}
             THEN ret.value = MERCHANT_PATTERNS[Min(MatchingMerchants)].normalizedName
             ELSE IF Cleaned # <<>> THEN ret.value = Cleaned
                  ELSE ret.value = ret.rawMerchant

\* A built-in rule and a rule added later both match the cleaned string, from
\* which a code was removed, and the built-in rule gave the name.
C24_Witness ==
    /\ Normalized
    /\ Cleaned # ret.rawMerchant
    /\ \E i, j \in MatchingMerchants :
          /\ i <= Len(MERCHANT_PATTERNS_0)
          /\ j > Len(MERCHANT_PATTERNS_0)
          /\ MERCHANT_PATTERNS[i].normalizedName # MERCHANT_PATTERNS[j].normalizedName
          /\ ret.value = MERCHANT_PATTERNS[i].normalizedName

-----------------------------------------------------------------------------
(* Properties of the results of both recurrence detectors (SpecRecurrence)   *)

Periods == {"daily", "weekly", "monthly", "yearly"}

\* C25: a result of detectRecurrence or of detectRecurrenceWithHistory has a
\* period, one of the four, exactly when it is recurring; a confidence it has
\* is between 0 and 1; a result of detectRecurrenceWithHistory has a
\* confidence, which is 0, 0.7, 0.8 or 0.9, and is recurring exactly when
\* the confidence is above 0.
C25_RecurrenceResultShape ==
    (RecurrenceDetected \/ HistoryDetected) =>
        /\ ret.value.isRecurring \in BOOLEAN
        /\ ret.value.isRecurring => ret.value.period \in Periods
        /\ ~ret.value.isRecurring => ret.value.period = "undefined"
        /\ ret.value.confidence.def =>
              (0 <= ret.value.confidence.tenths /\ ret.value.confidence.tenths <= 10)
        /\ HistoryDetected =>
              /\ ret.value.confidence.def
              /\ ret.value.confidence.tenths \in {0, 7, 8, 9}
              /\ ret.value.isRecurring <=> ret.value.confidence.tenths > 0

\* A history of weekly payments: recurring, weekly, confidence 0.8.
C25_Witness ==
    /\ HistoryDetected
    /\ Len(ret.intervals) >= 2
    /\ \A i \in 1..Len(ret.intervals) : ret.intervals[i] = 7
    /\ ret.value.isRecurring
    /\ ret.value.period = "weekly"
    /\ ret.value.confidence = Tenths(8)

-----------------------------------------------------------------------------
(* The amount and the heuristic detectRecurrence (SpecHeuristic)             *)

\* The completed call repeated an earlier one with another amount.
Repeats == RecurrenceDetected /\ ret.of # NoCall

\* C26: detectRecurrence called again with the same merchant and description
\* and another amount (zero, positive, negative or NaN) returns what the
\* first call returned.
C26_AmountIrrelevant ==
    Repeats => (ret.of.amount # ret.amount /\ ret.value = ret.of.value)

\* A subscription detected for 21.99 is detected again for NaN.
C26_Witness ==
    /\ Repeats
    /\ ret.of.amount = Decimal(2199, 2)
    /\ ret.amount = NaN
    /\ ret.value.isRecurring
    /\ ret.value = ret.of.value

-----------------------------------------------------------------------------
(* parseTransaction with a registered set that lacks a field (SpecPartial)   *)

\* The registered sets without a description or without a merchant pattern.
PartialSets ==
    { i \in 1..Len(BANK_PATTERNS) :
        \/ ~Field(BANK_PATTERNS[i].patterns, "description").def
        \/ ~Field(BANK_PATTERNS[i].patterns, "merchant").def }

\* C27: with a set registered that has no description or no merchant
\* pattern, or no pattern at all, parseTransaction raises no exception and
\* returns a record with every field, and the set chosen is one whose
\* confidence no built-in set exceeds.
C27_PartialSetTolerated ==
    (Returned /\ PartialSets # {}) =>
        /\ ~ret.value.threw
        /\ DOMAIN ret.value = RecordFields
        /\ \A i \in 1..Len(BANK_PATTERNS_0) :
              LET result == tryParseWithPattern(ret.rawText, BANK_PATTERNS[i].patterns)
              IN  result.num * ret.parsedData.den <= ret.parsedData.num * result.den

-----------------------------------------------------------------------------
(* parseTransaction and the rule tables (Spec)                               *)

\* C28: a parseTransaction call, whether it returns or throws, leaves the
\* bank registry, MERCHANT_PATTERNS and CATEGORY_RULES with the same entries
\* in the same order, although classification orders the category rules by
\* priority; a step that changes one of the tables is an add operation.
C28_ParseLeavesTables ==
    [][/\ (req.op = "parseTransaction" /\ req' = Idle) =>
              /\ BANK_PATTERNS' = BANK_PATTERNS
              /\ MERCHANT_PATTERNS' = MERCHANT_PATTERNS
              /\ CATEGORY_RULES' = CATEGORY_RULES
       /\ <<BANK_PATTERNS, MERCHANT_PATTERNS, CATEGORY_RULES>>'
              # <<BANK_PATTERNS, MERCHANT_PATTERNS, CATEGORY_RULES>> =>
              /\ ret'.op \in {"addBankPattern", "addMerchantPattern", "addCategoryRule"}
              /\ adds' = adds + 1]_vars

\* A call has returned the category of an added rule of priority 95, which
\* classification put before the built-in rules, and the rule is still the
\* last of the table.
C28_Witness ==
    /\ Returned
    /\ ~ret.value.threw
    /\ Len(CATEGORY_RULES) > Len(CATEGORY_RULES_0)
    /\ SubSeq(CATEGORY_RULES, 1, Len(CATEGORY_RULES_0)) = CATEGORY_RULES_0
    /\ CATEGORY_RULES[Len(CATEGORY_RULES)].priority = 95
    /\ ret.value.category = CATEGORY_RULES[Len(CATEGORY_RULES)].category
    /\ SortByPriority(CATEGORY_RULES) # CATEGORY_RULES

-----------------------------------------------------------------------------
(* The range of the confidence (SpecBuiltin)                                 *)

\* C29: the confidence tryParseWithPattern computes for a registered set on
\* the text of a completed call is a fraction from 0 to 1, and so is the
\* confidence of the set the call chose.
C29_ConfidenceAtMostOne ==
    (Returned /\ ~ret.value.threw) =>
        /\ \A i \in 1..Len(BANK_PATTERNS) :
              LET result == tryParseWithPattern(ret.rawText, BANK_PATTERNS[i].patterns)
              IN  ~result.threw => (0 <= result.num /\ result.num <= result.den)
        /\ ret.parsedData.num <= ret.parsedData.den

-----------------------------------------------------------------------------
(* The source of the fields of a record (SpecBuiltin)                        *)

\* What the set named in bankFormat extracts from the text of the call.
Winner ==
    LET i == CHOOSE j \in 1..Len(BANK_PATTERNS) : BANK_PATTERNS[j].name = ret.value.bankFormat
    IN  tryParseWithPattern(ret.rawText, BANK_PATTERNS[i].patterns)

\* The sets other than the one named in bankFormat that extract a card.
OthersWithCard ==
    { j \in 1..Len(BANK_PATTERNS) :
        /\ BANK_PATTERNS[j].name # ret.value.bankFormat
        /\ Truthy(tryParseWithPattern(ret.rawText, BANK_PATTERNS[j].patterns).card) }

\* C30: bankFormat names a registered set, and description, amount,
\* currency, merchant, accountMasked and date of the record are what that
\* set alone extracts from the text, each replaced by its default where the
\* set extracts nothing: the first line, 0, SAR, the fallback merchant,
\* N/A, the current date.
C30_FieldsFromWinner ==
    (Returned /\ ~ret.value.threw) =>
        /\ \E j \in 1..Len(BANK_PATTERNS) : BANK_PATTERNS[j].name = ret.value.bankFormat
        /\ ret.value.description =
              (IF Truthy(Winner.description) THEN Winner.description.v
               ELSE FirstLine(ret.rawText))
        /\ ret.value.amount =
              parseFloat(IF Winner.amount.def /\ StripCommas(Winner.amount.v) # <<>>
                         THEN StripCommas(Winner.amount.v) ELSE L("0"))
        /\ ret.value.currency =
              (IF Truthy(Winner.currency) THEN Winner.currency.v ELSE L("SAR"))
        /\ ret.value.merchant =
              normalizeMerchant(IF Truthy(Winner.merchant) THEN Winner.merchant.v
                                ELSE extractMerchantFallback(ret.rawText),
                                MERCHANT_PATTERNS)
        /\ ret.value.accountMasked = formatAccountMasked(Winner.card, Winner.account)
        /\ ret.value.date = normalizeDate(Winner.date, ret.today)

\* The set chosen extracted no card and no account while another set
\* extracted a card, and the record has N/A.
C30_Witness ==
    /\ Returned
    /\ ~ret.value.threw
    /\ ~Truthy(Winner.card)
    /\ ~Truthy(Winner.account)
    /\ OthersWithCard # {}
    /\ ret.value.accountMasked = L("N/A")
=============================================================================
